---- MODULE Spec2Model ----
(***************************************************************************)
(* Model of the scenario pipeline of the cyber range deployer:             *)
(*   planner      src/src/planner/planner.py         plan_scenario         *)
(*   provisioner  src/src/provisioner/provisioner.py provision             *)
(* Host ids and network ids are modelled by integers; the order of the     *)
(* integers stands for the string order of the ids.                        *)
(***************************************************************************)
EXTENDS Integers, Sequences, FiniteSets, TLC

\* ------------------------------------------------------------------ bounds
MaxHosts == 3
MaxNets == 2
MaxDeps == 2
MaxFaults == 2
MaxCallTime == 1
MaxEntries == 2
MaxIps == 2
MaxPort == 2

HostIds == 1..MaxHosts
NetIds == 1..MaxNets

\* Host types drawn for the scenarios (one per type priority).
ScenarioTypes == {"db", "web", "attacker"}

VARIABLES
  scenario,   \* the scenario document: [hosts, networks, services, flags, vulnerabilities]
  opts,       \* provision options: dry_run, executor, idempotent_mode, parallel
  existing,   \* what the runtime's inspect probes report: [nets, containers, probe_raises]
  pc,         \* position of the pipeline
  plan,       \* PlanResult: ordered_components, network_topology (ids and hosts), errors
  ops,        \* ProvisionResult.operations
  errors,     \* ProvisionResult.errors
  started,    \* per operation index: how often its execution has started
  finished,   \* per operation index: how often its execution has returned
  depth,      \* parallel execution: the wave being run
  queue,      \* parallel execution: work items of the pool not yet taken
  workers,    \* parallel execution: max_workers of the current pool
  failing,    \* the operations on which the executor fails or the wait times out
  wait,       \* _wait_for_container_health: position, clock, last probes, result
  validation, \* ScenarioValidator.validate: the schema verdict given and the ValidationResult
  cli,        \* validate_and_plan / provision_cmd: position and what was invoked
  policy,     \* PolicyEngine: the engine, the metadata, the host_config and the results
  pool        \* parallel execution: completed futures and the threads inside errors.append

vars == <<scenario, opts, existing, pc, plan, ops, errors, started, finished,
          depth, queue, workers, failing, wait, validation, cli, policy, pool>>

\* ------------------------------------------------------------ sequences
RECURSIVE Flatten(_)
Flatten(ss) == IF ss = <<>> THEN <<>> ELSE Head(ss) \o Flatten(Tail(ss))

Range(s) == {s[i] : i \in 1..Len(s)}

\* All orders in which a set of host ids can be iterated (hash order of a
\* Python set / of a dict built from it).
Perms == {p \in [1..MaxHosts -> HostIds] : \A i, j \in 1..MaxHosts : p[i] = p[j] => i = j}

Max(S) == CHOOSE x \in S : \A y \in S : y <= x
Min2(a, b) == IF a < b THEN a ELSE b

\* ------------------------------------------------------------ planner
\* str.lower() on the type names
Lower(t) ==
  CASE t = "Attacker" -> "attacker"
    [] t = "DB" -> "db"
    [] t = "Web" -> "web"
    [] t = "TCP" -> "tcp"
    [] t = "UDP" -> "udp"
    [] t \in {"EASY", "Easy"} -> "easy"
    [] t \in {"MEDIUM", "Medium"} -> "medium"
    [] t \in {"HARD", "Hard"} -> "hard"
    [] t = "CUSTOM" -> "custom"
    [] OTHER -> t

\* type_priority.get(t, 1)
type_priority(t) ==
  CASE t \in {"db", "smb", "ftp"} -> 0
    [] t \in {"web", "custom", "victim"} -> 1
    [] t = "attacker" -> 2
    [] OTHER -> 1

\* h.get("type") or "victim"
TypeOrVictim(t) == IF t = "" THEN "victim" ELSE t

\* adj[dep]: the hosts that list dep in depends_on
adj(sc, dep) == {hid \in HostIds : dep \in sc.hosts[hid].depends_on}

\* indegree after the edges are added
indegree0(sc) == [hid \in HostIds |-> Cardinality({dep \in HostIds : hid \in adj(sc, dep)})]

\* Kahn's loop: queue, indegree, topo_order; `order` is the iteration order of
\* the sets.
RECURSIVE Kahn(_, _, _, _, _)
Kahn(sc, order, q, indeg, topo) ==
  IF q = <<>> THEN topo
  ELSE LET cur == Head(q)
           nindeg == [h \in HostIds |-> IF h \in adj(sc, cur) THEN indeg[h] - 1 ELSE indeg[h]]
           ready == SelectSeq(order, LAMBDA h : h \in adj(sc, cur) /\ nindeg[h] = 0)
       IN Kahn(sc, order, Tail(q) \o ready, nindeg, Append(topo, cur))

\* any(h.get("depends_on") for h in hosts)
AnyDependsOn(sc) == \E h \in HostIds : sc.hosts[h].depends_on # {}

KahnOrder(sc, order) ==
  Kahn(sc, order, SelectSeq(order, LAMBDA h : indegree0(sc)[h] = 0), indegree0(sc), <<>>)

CycleDetected(sc, order) == AnyDependsOn(sc) /\ Len(KahnOrder(sc, order)) # MaxHosts

\* topo_order with the partial order kept when a cycle was detected
topo_order_partial(sc, order) == IF AnyDependsOn(sc) THEN KahnOrder(sc, order) ELSE <<>>

\* topo_order as left after the cycle check
topo_order(sc, order) ==
  IF AnyDependsOn(sc) /\ ~CycleDetected(sc, order) THEN KahnOrder(sc, order) ELSE <<>>

\* the key of the sort in the topological branch
TopoKey(sc, hid) == <<type_priority(TypeOrVictim(sc.hosts[hid].type)), hid>>

\* host_sort_key
host_sort_key(sc, hid) == <<type_priority(Lower(TypeOrVictim(sc.hosts[hid].type))), hid>>

KeyLess(a, b) == a[1] < b[1] \/ (a[1] = b[1] /\ a[2] < b[2])

\* sorted(ids, key): the ids of S in ascending key order (keys are distinct);
\* key is the function from id to sort key
RECURSIVE SortedBy(_, _)
SortedBy(S, key) ==
  IF S = {} THEN <<>>
  ELSE LET m == CHOOSE x \in S : \A y \in S \ {x} : KeyLess(key[x], key[y])
       IN <<m>> \o SortedBy(S \ {m}, key)

\* ordered_components with the topological order taken as the queue left it
PriorityOrderUnsorted(sc, order) ==
  IF topo_order(sc, order) # <<>>
  THEN topo_order(sc, order)
  ELSE SortedBy(HostIds, [h \in HostIds |-> host_sort_key(sc, h)])

\* ordered_components with the topological order sorted by type priority
\* alone, hosts of one priority staying in topological order
PriorityOrderStable(sc, order) ==
  IF topo_order(sc, order) # <<>>
  THEN SelectSeq(topo_order(sc, order), LAMBDA h : TopoKey(sc, h)[1] = 0)
         \o SelectSeq(topo_order(sc, order), LAMBDA h : TopoKey(sc, h)[1] = 1)
         \o SelectSeq(topo_order(sc, order), LAMBDA h : TopoKey(sc, h)[1] = 2)
  ELSE SortedBy(HostIds, [h \in HostIds |-> host_sort_key(sc, h)])

\* ordered_components before the attacker pass
PriorityOrder(sc, order) ==
  IF topo_order(sc, order) # <<>>
  THEN SortedBy(Range(topo_order(sc, order)), [h \in HostIds |-> TopoKey(sc, h)])
  ELSE SortedBy(HostIds, [h \in HostIds |-> host_sort_key(sc, h)])

\* the attacker pass with the two parts exchanged
AttackersFirst(sc, oc) ==
  SelectSeq(oc, LAMBDA h : sc.hosts[h].type = "attacker")
    \o SelectSeq(oc, LAMBDA h : sc.hosts[h].type # "attacker")

\* the attacker pass without its second part
NonAttackersOnly(sc, oc) == SelectSeq(oc, LAMBDA h : sc.hosts[h].type # "attacker")

\* attackers to the end
AttackerLast(sc, oc) ==
  SelectSeq(oc, LAMBDA h : sc.hosts[h].type # "attacker")
    \o SelectSeq(oc, LAMBDA h : sc.hosts[h].type = "attacker")

\* the network entries of all hosts in the order of the two loops; ip 0 is an
\* absent or empty ip_address
HostEntries(sc, h) ==
  [i \in 1..Len(sc.hosts[h].networks) |->
     [host_id |-> h, network |-> sc.hosts[h].networks[i], ip |-> sc.hosts[h].ips[i]]]

Memberships(sc) == Flatten([h \in 1..MaxHosts |-> HostEntries(sc, h)])

\* the loop over the network entries with an ip_usage that is never filled
RECURSIVE IpScanNoUsage(_, _, _, _)
IpScanNoUsage(sc, ms, ip_usage, errs) ==
  IF ms = <<>> THEN errs
  ELSE IF Head(ms).network \notin Range(sc.networks)
  THEN IpScanNoUsage(sc, Tail(ms), ip_usage, Append(errs, "references unknown network"))
  ELSE IF Head(ms).ip # 0 /\ <<Head(ms).network, Head(ms).ip>> \in ip_usage
  THEN IpScanNoUsage(sc, Tail(ms), ip_usage, Append(errs, "IP conflict"))
  ELSE IpScanNoUsage(sc, Tail(ms), ip_usage, errs)

\* the loop over the network entries: ip_usage and the errors it appends
RECURSIVE IpScan(_, _, _, _)
IpScan(sc, ms, ip_usage, errs) ==
  IF ms = <<>> THEN errs
  ELSE IF Head(ms).network \notin Range(sc.networks)
  THEN IpScan(sc, Tail(ms), ip_usage, Append(errs, "references unknown network"))
  ELSE IF Head(ms).ip # 0 /\ <<Head(ms).network, Head(ms).ip>> \in ip_usage
  THEN IpScan(sc, Tail(ms), ip_usage, Append(errs, "IP conflict"))
  ELSE IpScan(sc, Tail(ms),
              IF Head(ms).ip # 0 THEN ip_usage \cup {<<Head(ms).network, Head(ms).ip>>} ELSE ip_usage,
              errs)

\* network_topology[nid]["hosts"]
topology_hosts(sc) ==
  [nid \in Range(sc.networks) |->
     LET ms == SelectSeq(Memberships(sc), LAMBDA m : m.network = nid)
     IN [i \in 1..Len(ms) |-> [host_id |-> ms[i].host_id, ip |-> ms[i].ip]]]

\* the protocol taken as written
protocol_raw(p) == p.protocol

\* (p.get("protocol") or "tcp").lower()
protocol(p) == Lower(IF p.protocol = "" THEN "tcp" ELSE p.protocol)

\* the ports of the services a host references, in loop order; a reference to
\* an undefined service is kept as a marker
ServicePorts(sc, h, svc_id) ==
  IF svc_id \notin 1..Len(sc.services)
  THEN <<[undefined |-> TRUE, external |-> 0, protocol |-> ""]>>
  ELSE [j \in 1..Len(sc.services[svc_id].ports) |->
          [undefined |-> FALSE,
           external |-> sc.services[svc_id].ports[j].external,
           protocol |-> protocol(sc.services[svc_id].ports[j])]]

HostPorts(sc, h) ==
  Flatten([i \in 1..Len(sc.hosts[h].services) |-> ServicePorts(sc, h, sc.hosts[h].services[i])])

AllPorts(sc) == Flatten([h \in 1..MaxHosts |-> HostPorts(sc, h)])

\* the loop over the ports: external_port_usage and the errors it appends;
\* external 0 is a port without an (integer) external mapping
RECURSIVE PortScan(_, _, _)
PortScan(ps, external_port_usage, errs) ==
  IF ps = <<>> THEN errs
  ELSE IF Head(ps).undefined
  THEN PortScan(Tail(ps), external_port_usage, Append(errs, "references undefined service"))
  ELSE IF Head(ps).external = 0
  THEN PortScan(Tail(ps), external_port_usage, errs)
  ELSE IF <<Head(ps).external, Head(ps).protocol>> \in external_port_usage
  THEN PortScan(Tail(ps), external_port_usage, Append(errs, "External port conflict"))
  ELSE PortScan(Tail(ps), external_port_usage \cup {<<Head(ps).external, Head(ps).protocol>>}, errs)

PlanErrors(sc, order) ==
  IpScan(sc, Memberships(sc), {}, <<>>)
    \o PortScan(AllPorts(sc), {}, <<>>)
    \o (IF CycleDetected(sc, order) THEN <<"Cycle detected in host dependencies">> ELSE <<>>)

plan_scenario(sc, order) ==
  [ordered_components |-> AttackerLast(sc, PriorityOrder(sc, order)),
   network_topology |-> sc.networks,
   topology_hosts |-> topology_hosts(sc),
   errors |-> PlanErrors(sc, order)]

NoPlan == [ordered_components |-> <<>>, network_topology |-> <<>>, topology_hosts |-> <<>>,
           errors |-> <<>>]

\* ------------------------------------------------------------ validator
\* _validate_schema: jsonschema.validate raises at most one ValidationError or
\* SchemaError, which becomes the one schema error; the verdict is given
_validate_schema(verdict) ==
  CASE verdict = "ValidationError" -> <<"schema violation">>
    [] verdict = "SchemaError" -> <<"Invalid schema">>
    [] OTHER -> <<>>

flag_ids(sc) == {sc.flags[i].id : i \in 1..Len(sc.flags)}

\* the errors of one host in _validate_semantics: network references, then
\* flag references
HostReferenceErrors(sc, h) ==
  [i \in 1..Len(SelectSeq(sc.hosts[h].networks, LAMBDA n : n \notin Range(sc.networks))) |->
     "references unknown network"]
    \o [i \in 1..Len(SelectSeq(sc.hosts[h].flags, LAMBDA f : f \notin flag_ids(sc))) |->
          "references unknown flag"]

\* placement.host_id is set and names no host (0: no host_id)
PlacementErrors(sc) ==
  [i \in 1..Len(SelectSeq(sc.flags, LAMBDA f : f.host_id # 0 /\ f.host_id \notin DOMAIN sc.hosts)) |->
     "Flag references unknown host"]

\* _validate_semantics without the loop over the flags' placements
semantic_errors_hosts_only(sc) ==
  Flatten([h \in 1..MaxHosts |-> HostReferenceErrors(sc, h)])

semantic_errors(sc) ==
  Flatten([h \in 1..MaxHosts |-> HostReferenceErrors(sc, h)]) \o PlacementErrors(sc)

vulnerability_ids(sc) == Range(sc.vulnerabilities)

semantic_warnings(sc) ==
  Flatten([h \in 1..MaxHosts |->
             IF sc.hosts[h].type = "attacker" /\ sc.hosts[h].flags # <<>>
             THEN <<"Attacker host has flags">> ELSE <<>>])
    \o Flatten([h \in 1..MaxHosts |->
                  [i \in 1..Len(SelectSeq(sc.hosts[h].vulnerabilities,
                                          LAMBDA v : sc.vulnerabilities # <<>> /\ v \notin vulnerability_ids(sc))) |->
                     "references undefined vulnerability"]])

\* _validate_topology
topo_errors(sc) ==
  (IF sc.networks = <<>> THEN <<"Scenario must have at least one network">> ELSE <<>>)
    \o (IF DOMAIN sc.hosts = {} THEN <<"Scenario must have at least one host">> ELSE <<>>)

attacker_hosts(sc) == {h \in DOMAIN sc.hosts : sc.hosts[h].type = "attacker"}
used_networks(sc) == UNION {Range(sc.hosts[h].networks) : h \in DOMAIN sc.hosts}

topo_warnings(sc) ==
  (IF attacker_hosts(sc) = {} THEN <<"No attacker host defined">>
   ELSE IF Cardinality(attacker_hosts(sc)) > 1 THEN <<"Multiple attacker hosts defined">>
   ELSE <<>>)
    \o Flatten([h \in 1..MaxHosts |->
                  IF sc.hosts[h].networks = <<>> THEN <<"Host is not connected to any network">> ELSE <<>>])
    \o [i \in 1..Len(SelectSeq(sc.networks, LAMBDA n : n \notin used_networks(sc))) |->
          "Network is defined but not used"]

\* _validate_flags: duplicate values (empty values are skipped), duplicate ids,
\* then the fields the placement type requires
\* one error for the first repeat of a value only
DuplicateValuesFirstRepeat(sc) ==
  [i \in 1..Len(SelectSeq([k \in 1..Len(sc.flags) |-> k],
                          LAMBDA k : sc.flags[k].value # ""
                                     /\ Cardinality({j \in 1..(k - 1) :
                                                       sc.flags[j].value = sc.flags[k].value}) = 1)) |->
     "Duplicate flag value"]

DuplicateValues(sc) ==
  [i \in 1..Len(SelectSeq([k \in 1..Len(sc.flags) |-> k],
                          LAMBDA k : sc.flags[k].value # ""
                                     /\ \E j \in 1..(k - 1) : sc.flags[j].value = sc.flags[k].value)) |->
     "Duplicate flag value"]

DuplicateIds(sc) ==
  [i \in 1..Len(SelectSeq([k \in 1..Len(sc.flags) |-> k],
                          LAMBDA k : \E j \in 1..(k - 1) : sc.flags[j].id = sc.flags[k].id)) |->
     "Duplicate flag ID"]

PlacementFieldError(f) ==
  CASE f.type = "file" /\ ~f.path -> <<"File placement requires 'path' field">>
    [] f.type = "env_var" /\ ~f.variable -> <<"Environment variable placement requires 'variable' field">>
    [] f.type = "db_row" /\ ~(f.table /\ f.query) -> <<"Database placement requires 'table' and 'query' in details">>
    [] OTHER -> <<>>

flag_errors(sc) ==
  IF sc.flags = <<>> THEN <<>>
  ELSE DuplicateValues(sc) \o DuplicateIds(sc)
         \o Flatten([i \in 1..Len(sc.flags) |-> PlacementFieldError(sc.flags[i])])

flag_warnings(sc) == IF sc.flags = <<>> THEN <<"Scenario has no flags">> ELSE <<>>

ValidationResult(valid, errs, warns) ==
  [pc |-> "returned", is_valid |-> valid, errors |-> errs, warnings |-> warns]

\* validate with is_valid requiring that there are no warnings either
validate_warnings_block(sc, verdict) ==
  IF _validate_schema(verdict) # <<>>
  THEN ValidationResult(FALSE, _validate_schema(verdict), <<>>)
  ELSE ValidationResult(
         semantic_errors(sc) \o topo_errors(sc) \o flag_errors(sc) = <<>>
           /\ semantic_warnings(sc) \o topo_warnings(sc) \o flag_warnings(sc) = <<>>,
         semantic_errors(sc) \o topo_errors(sc) \o flag_errors(sc),
         semantic_warnings(sc) \o topo_warnings(sc) \o flag_warnings(sc))

\* validate going on to the semantic checks after a schema error
validate_no_short_circuit(sc, verdict) ==
  ValidationResult(
    _validate_schema(verdict) \o semantic_errors(sc) \o topo_errors(sc) \o flag_errors(sc) = <<>>,
    _validate_schema(verdict) \o semantic_errors(sc) \o topo_errors(sc) \o flag_errors(sc),
    semantic_warnings(sc) \o topo_warnings(sc) \o flag_warnings(sc))

\* ScenarioValidator.validate
validate(sc, verdict) ==
  IF _validate_schema(verdict) # <<>>
  THEN ValidationResult(FALSE, _validate_schema(verdict), <<>>)
  ELSE ValidationResult(
         semantic_errors(sc) \o topo_errors(sc) \o flag_errors(sc) = <<>>,
         semantic_errors(sc) \o topo_errors(sc) \o flag_errors(sc),
         semantic_warnings(sc) \o topo_warnings(sc) \o flag_warnings(sc))

\* ------------------------------------------------------------ policy engine
\* A dict is a function from its keys to its values; numbers are written as
\* Python prints them.
EmptyDict == [k \in {} |-> ""]

\* dict.update
Update(d, u) == [k \in DOMAIN d \cup DOMAIN u |-> IF k \in DOMAIN u THEN u[k] ELSE d[k]]

\* scenario.metadata with or without resource_policy and difficulty
Metadata(rp, df) ==
  (IF rp = "" THEN EmptyDict ELSE [resource_policy |-> rp])
    @@ (IF df = "" THEN EmptyDict ELSE [difficulty |-> df])
    @@ [name |-> "lab"]

DifficultyTier == {"easy", "medium", "hard", "custom"}

\* DEFAULT_POLICIES[tier].to_dict(): the limits that are not None
DEFAULT_POLICIES(tier) ==
  CASE tier = "easy" ->
         [cpu_limit |-> "2.0", memory_limit |-> "2g", disk_limit |-> "20g", pids_limit |-> "1024"]
    [] tier = "medium" ->
         [cpu_limit |-> "1.0", memory_limit |-> "1g", disk_limit |-> "10g", pids_limit |-> "512"]
    [] tier = "hard" ->
         [cpu_limit |-> "0.5", memory_limit |-> "512m", disk_limit |-> "5g", pids_limit |-> "256"]

ResourcePolicy(name, tier, limits, enforce_limits, allow_override) ==
  [name |-> name, tier |-> tier, limits |-> limits,
   enforce_limits |-> enforce_limits, allow_override |-> allow_override]

\* the exception of from_tier(CUSTOM)
ValueError == [raised |-> "ValueError"]

\* f"{tier.value}_policy"
policy_name(tier) ==
  CASE tier = "easy" -> "easy_policy"
    [] tier = "medium" -> "medium_policy"
    [] tier = "hard" -> "hard_policy"

from_tier(tier) ==
  IF tier = "custom" THEN ValueError
  ELSE ResourcePolicy(policy_name(tier), tier, DEFAULT_POLICIES(tier), TRUE, FALSE)

from_custom(name, limits, allow_override) ==
  ResourcePolicy(name, "custom", limits, TRUE, allow_override)

\* the policies of create_default_engine, and two registered with
\* enforce_limits switched off
custom_policies ==
  [minimal |-> from_custom("minimal",
                 [cpu_limit |-> "0.25", memory_limit |-> "256m", disk_limit |-> "2g", pids_limit |-> "128"],
                 FALSE),
   generous |-> from_custom("generous",
                 [cpu_limit |-> "4.0", memory_limit |-> "4g", disk_limit |-> "50g", pids_limit |-> "2048"],
                 TRUE),
   advisory |-> ResourcePolicy("advisory", "custom", [cpu_limit |-> "1.0"], FALSE, FALSE),
   advisory_open |-> ResourcePolicy("advisory_open", "custom", [cpu_limit |-> "1.0"], FALSE, TRUE)]

PolicyEngine(default_tier, registered) ==
  [default_tier |-> default_tier,
   custom_policies |-> [n \in registered |-> custom_policies[n]]]

\* DifficultyTier(difficulty) does not raise ValueError
is_tier(difficulty) == difficulty \in DifficultyTier

\* get_policy with the difficulty looked at before the named policy
get_policy_difficulty_first(engine, metadata) ==
  IF /\ "difficulty" \in DOMAIN metadata
     /\ is_tier(Lower(metadata.difficulty))
     /\ Lower(metadata.difficulty) # "custom"
  THEN from_tier(Lower(metadata.difficulty))
  ELSE IF /\ "resource_policy" \in DOMAIN metadata
          /\ metadata.resource_policy \in DOMAIN engine.custom_policies
  THEN engine.custom_policies[metadata.resource_policy]
  ELSE from_tier(engine.default_tier)

get_policy(engine, metadata) ==
  IF /\ "resource_policy" \in DOMAIN metadata
     /\ metadata.resource_policy \in DOMAIN engine.custom_policies
  THEN engine.custom_policies[metadata.resource_policy]
  ELSE IF /\ "difficulty" \in DOMAIN metadata
          /\ is_tier(Lower(metadata.difficulty))
          /\ Lower(metadata.difficulty) # "custom"
  THEN from_tier(Lower(metadata.difficulty))
  ELSE from_tier(engine.default_tier)

has_custom_limits(host_config) ==
  \E key \in {"cpu_limit", "memory_limit", "disk_limit", "pids_limit"} : key \in DOMAIN host_config

\* apply_policy without the allow_override branch
apply_policy_no_override(host_config, p) ==
  IF p.enforce_limits THEN Update(host_config, p.limits) ELSE host_config

\* the result of apply_policy: a copy of host_config, updated or not
apply_policy(host_config, p) ==
  IF p.allow_override /\ has_custom_limits(host_config) THEN host_config
  ELSE IF p.enforce_limits THEN Update(host_config, p.limits)
  ELSE host_config

\* ------------------------------------------------------------ provisioner
\* An operation: its type, the container it names (0: none) and the network it
\* names (0: none).
Op(t, name, net) == [type |-> t, name |-> name, network |-> net]

\* _network_exists / _container_exists: without an executor nothing exists;
\* an inspect that raises is caught and answered False
_network_exists(o, ex, net) == o.executor /\ ~ex.probe_raises /\ net \in ex.nets
_container_exists(o, ex, name) == o.executor /\ ~ex.probe_raises /\ name \in ex.containers

\* replace mode with the remove emitted after the create
NetworkOpsCreateFirst(o, ex, net) ==
  IF _network_exists(o, ex, net) /\ o.idempotent_mode = "skip"
  THEN <<Op("network.create.skip", 0, net)>>
  ELSE <<Op("network.create", 0, net)>>
       \o (IF _network_exists(o, ex, net) /\ o.idempotent_mode = "replace"
           THEN <<Op("network.remove", 0, net)>> ELSE <<>>)

\* the operations of one network of plan.network_topology
NetworkOps(o, ex, net) ==
  IF _network_exists(o, ex, net) /\ o.idempotent_mode = "skip"
  THEN <<Op("network.create.skip", 0, net)>>
  ELSE (IF _network_exists(o, ex, net) /\ o.idempotent_mode = "replace"
        THEN <<Op("network.remove", 0, net)>> ELSE <<>>)
       \o <<Op("network.create", 0, net)>>

\* str(float(cpu_limit))
float_str(v) ==
  CASE v = "1" -> "1.0"
    [] v = "2" -> "2.0"
    [] OTHER -> v

\* the resource flags of _container_run_op: --cpus, --memory and
\* --storage-opt size= ("": the flag is not given)
_container_run_limits(resources) ==
  [cpus |-> IF "cpu_limit" \in DOMAIN resources THEN float_str(resources.cpu_limit) ELSE "",
   memory |-> IF "memory_limit" \in DOMAIN resources THEN resources.memory_limit ELSE "",
   storage_size |-> IF "disk_limit" \in DOMAIN resources THEN resources.disk_limit ELSE ""]

\* container.run.skip, or container.remove + container.run, or container.run
RunOps(o, ex, host, hid) ==
  IF _container_exists(o, ex, hid)
  THEN (IF o.idempotent_mode = "skip" THEN <<Op("container.run.skip", hid, 0)>>
        ELSE IF o.idempotent_mode = "replace"
        THEN <<Op("container.remove", hid, 0), Op("container.run", hid, host.networks[1])>>
        ELSE <<>>)
  ELSE <<Op("container.run", hid, host.networks[1])>>

\* healthcheck.wait when a healthcheck is defined and the container did not exist
WaitOps(o, ex, host, hid) ==
  IF host.healthcheck /\ ~_container_exists(o, ex, hid)
  THEN <<Op("healthcheck.wait", hid, 0)>> ELSE <<>>

\* a network.connect for every network, the primary included
ConnectOpsAll(host, hid) ==
  [i \in 1..Len(host.networks) |-> Op("network.connect", hid, host.networks[i])]

\* one network.connect per extra network
ConnectOps(host, hid) ==
  [i \in 1..(Len(host.networks) - 1) |-> Op("network.connect", hid, host.networks[i + 1])]

\* the loop body with the connects emitted before the healthcheck.wait
HostOpsConnectFirst(sc, o, ex, hid) ==
  IF hid \notin DOMAIN sc.hosts THEN <<>>
  ELSE IF sc.hosts[hid].networks = <<>> THEN <<>>
  ELSE RunOps(o, ex, sc.hosts[hid], hid) \o ConnectOps(sc.hosts[hid], hid)
         \o WaitOps(o, ex, sc.hosts[hid], hid)

\* the body of the loop over plan.ordered_components for one host id
HostOps(sc, o, ex, hid) ==
  IF hid \notin DOMAIN sc.hosts THEN <<>>
  ELSE IF sc.hosts[hid].networks = <<>> THEN <<>>
  ELSE RunOps(o, ex, sc.hosts[hid], hid) \o WaitOps(o, ex, sc.hosts[hid], hid)
         \o ConnectOps(sc.hosts[hid], hid)

\* the rejection of unknown ids only
HostErrorUnknownOnly(sc, hid) ==
  IF hid \notin DOMAIN sc.hosts THEN <<[error |-> "Plan references unknown host", name |-> hid]>>
  ELSE <<>>

\* the error of the loop body for a host id it rejects
HostError(sc, hid) ==
  IF hid \notin DOMAIN sc.hosts THEN <<[error |-> "Plan references unknown host", name |-> hid]>>
  ELSE IF sc.hosts[hid].networks = <<>> THEN <<[error |-> "Host has no networks in scenario", name |-> hid]>>
  ELSE <<>>

\* the operation stream with the containers emitted before the networks
EmitOpsHostsFirst(p, sc, o, ex) ==
  Flatten([i \in 1..Len(p.ordered_components) |-> HostOps(sc, o, ex, p.ordered_components[i])])
    \o Flatten([i \in 1..Len(p.network_topology) |-> NetworkOps(o, ex, p.network_topology[i])])

\* the operation stream returned in the order the parallel branch executes it:
\* the network operations first
EmitOpsAsExecuted(p, sc, o, ex) ==
  LET os == Flatten([i \in 1..Len(p.network_topology) |-> NetworkOps(o, ex, p.network_topology[i])])
              \o Flatten([i \in 1..Len(p.ordered_components) |-> HostOps(sc, o, ex, p.ordered_components[i])])
      net(x) == x.type \in {"network.create", "network.create.skip", "network.remove", "network.connect"}
  IN IF o.parallel
     THEN SelectSeq(os, net) \o SelectSeq(os, LAMBDA x : ~net(x))
     ELSE os

\* the operation stream of provision
EmitOps(p, sc, o, ex) ==
  Flatten([i \in 1..Len(p.network_topology) |-> NetworkOps(o, ex, p.network_topology[i])])
    \o Flatten([i \in 1..Len(p.ordered_components) |-> HostOps(sc, o, ex, p.ordered_components[i])])

EmitErrors(p, sc) ==
  Flatten([i \in 1..Len(p.ordered_components) |-> HostError(sc, p.ordered_components[i])])

\* str.startswith on the operation types
StartsWithNetwork(t) ==
  t \in {"network.create", "network.create.skip", "network.remove", "network.connect"}
StartsWithContainer(t) == t \in {"container.run", "container.run.skip", "container.remove"}

\* the indices of S in ascending order ([o for o in ops if ...] keeps the order)
Indices(os, S) == SelectSeq([i \in 1..Len(os) |-> i], LAMBDA i : i \in S)

\* network_ops, connect_ops: indices into ops, in emitted order
network_ops(os) == Indices(os, {i \in 1..Len(os) : StartsWithNetwork(os[i].type)})
connect_ops(os) == Indices(os, {i \in 1..Len(os) : os[i].type = "network.connect"})

\* container_op_map[hid]
container_op_map(os, hid) ==
  Indices(os, {i \in 1..Len(os) :
                 /\ StartsWithContainer(os[i].type) \/ os[i].type = "healthcheck.wait"
                 /\ os[i].name = hid})

\* host_deps.get(hid, [])
host_deps(sc, hid) == IF hid \in DOMAIN sc.hosts THEN sc.hosts[hid].depends_on ELSE {}

\* _calc_depth recurses for ever (RecursionError) when hid reaches a cycle
RECURSIVE Reaches(_, _, _)
Reaches(sc, S, n) ==
  IF n = 0 THEN S
  ELSE Reaches(sc, S \cup UNION {host_deps(sc, h) : h \in S}, n - 1)

DepsOf(sc, hid) == Reaches(sc, host_deps(sc, hid), MaxHosts)
DepthDiverges(sc, p) ==
  \E i \in 1..Len(p.ordered_components) :
    \E h \in DepsOf(sc, p.ordered_components[i]) \cup {p.ordered_components[i]} :
      h \in DepsOf(sc, h)

\* a depth that only tells hosts with dependencies from hosts without
_calc_depth_shallow(sc, hid) == IF host_deps(sc, hid) = {} THEN 0 ELSE 1

RECURSIVE _calc_depth(_, _)
_calc_depth(sc, hid) ==
  IF host_deps(sc, hid) = {} THEN 0
  ELSE Max({_calc_depth(sc, d) : d \in host_deps(sc, hid)}) + 1

max_depth(sc, p) ==
  IF p.ordered_components = <<>> THEN 0
  ELSE Max({_calc_depth(sc, h) : h \in Range(p.ordered_components)})

\* wave_ops of one depth
wave_ops(sc, p, os, d) ==
  Flatten([i \in 1..Len(SelectSeq(p.ordered_components, LAMBDA h : _calc_depth(sc, h) = d)) |->
             container_op_map(os, SelectSeq(p.ordered_components, LAMBDA h : _calc_depth(sc, h) = d)[i])])

\* ThreadPoolExecutor(max_workers=min(len(wave_ops), 4))
PoolCap == 4
WaitTimeout == 60
PollSleep == 2
max_workers(n) == Min2(n, PoolCap)

\* ------------------------------------------------------------ scenarios
\* depends_on lists of all hosts with at most MaxDeps edges in total
DepChoices ==
  {d \in [HostIds -> SUBSET HostIds] :
     Cardinality({e \in HostIds \X HostIds : e[1] \in d[e[2]]}) <= MaxDeps}

\* host.networks: the first k networks, the first being the primary
NetLists == {[i \in 1..k |-> i] : k \in 1..MaxNets}

AllNetworks == [i \in 1..MaxNets |-> i]

Host(t, d, n, hc) ==
  [type |-> t, depends_on |-> d, networks |-> n, healthcheck |-> hc,
   ips |-> [i \in 1..Len(n) |-> 0], services |-> <<>>, flags |-> <<>>, vulnerabilities |-> <<>>,
   resources |-> EmptyDict]

DefaultOpts == [dry_run |-> TRUE, executor |-> FALSE, idempotent_mode |-> "skip", parallel |-> FALSE]
NothingExists == [nets |-> {}, containers |-> {}, probe_raises |-> FALSE]

\* no wait in progress
NoWait == [pc |-> "idle", elapsed |-> 0, health |-> "", running |-> "", result |-> FALSE]

\* nothing validated, no command running, no policy engine in use, no future
\* completed
NoValidation == [pc |-> "none", schema |-> "ok", is_valid |-> FALSE, errors |-> <<>>, warnings |-> <<>>]
NoCli ==
  [pc |-> "idle", command |-> "", kwargs |-> {}, execute |-> FALSE, docker |-> "ok", invoked |-> FALSE,
          exit |-> "running"]
NoPolicy == [pc |-> "idle"]
NoPool == [done |-> <<>>, appending |-> {}]

InitCore ==
  /\ pc = "start"
  /\ plan = NoPlan
  /\ ops = <<>>
  /\ errors = <<>>
  /\ started = <<>>
  /\ finished = <<>>
  /\ depth = 0
  /\ queue = <<>>
  /\ workers = 0
  /\ wait = NoWait

InitRest ==
  /\ InitCore
  /\ validation = NoValidation
  /\ cli = NoCli
  /\ policy = NoPolicy
  /\ pool = NoPool

\* Planner inputs: every typing and every dependency graph within the bounds.
InitPlan ==
  /\ \E ty \in [HostIds -> ScenarioTypes], d \in DepChoices :
       scenario = [hosts |-> [h \in HostIds |-> Host(ty[h], d[h], <<1>>, FALSE)],
                   networks |-> AllNetworks, services |-> <<>>,
                   flags |-> <<>>, vulnerabilities |-> <<>>]
  /\ opts = DefaultOpts
  /\ existing = NothingExists
  /\ failing = {}
  /\ InitRest

\* Provisioner inputs for the emitted operation stream (dry run, with or
\* without an executor to probe with): every healthcheck assignment, every
\* probe result and both idempotent modes; host 1 of either kind, hosts 1 and 2
\* with one or more networks.
EmitTypings == {ty \in [HostIds -> {"web", "attacker"}] : \A h \in HostIds \ {1} : ty[h] = "web"}
EmitNetworks == {n \in [HostIds -> NetLists] : \A h \in HostIds \ {1, 2} : n[h] = <<1>>}
NoDeps == [h \in HostIds |-> {}]

InitEmit ==
  /\ \E ty \in EmitTypings, n \in EmitNetworks, hc \in SUBSET HostIds :
       scenario = [hosts |-> [h \in HostIds |-> Host(ty[h], NoDeps[h], n[h], h \in hc)],
                   networks |-> AllNetworks, services |-> <<>>,
                   flags |-> <<>>, vulnerabilities |-> <<>>]
  /\ \E e \in BOOLEAN, m \in {"skip", "replace"} :
       opts = [dry_run |-> TRUE, executor |-> e, idempotent_mode |-> m, parallel |-> FALSE]
  /\ \E en \in SUBSET NetIds, ec \in SUBSET HostIds :
       /\ existing = [nets |-> en, containers |-> ec, probe_raises |-> FALSE]
       /\ ~opts.executor => existing = NothingExists
  /\ failing = {}
  /\ InitRest

\* Inputs of the executed pipeline: dependencies towards hosts of smaller id,
\* and host 1 on itself (the cycle), every healthcheck
\* assignment, host 1 with one or more networks, sequential and parallel,
\* nothing or everything existing.
ExecDeps == {d \in DepChoices : \A h \in HostIds : d[h] \subseteq 1..(h - 1) \cup {1}}
ExecNetworks == {n \in [HostIds -> NetLists] : \A h \in HostIds \ {1} : n[h] = <<1>>}
EverythingExists == [nets |-> NetIds, containers |-> HostIds, probe_raises |-> FALSE]

Init ==
  /\ \E d \in ExecDeps, n \in ExecNetworks, hc \in SUBSET HostIds :
       scenario = [hosts |-> [h \in HostIds |-> Host("web", d[h], n[h], h \in hc)],
                   networks |-> AllNetworks, services |-> <<>>,
                   flags |-> <<>>, vulnerabilities |-> <<>>]
  /\ \E par \in BOOLEAN, m \in {"skip", "replace"} :
       opts = [dry_run |-> FALSE, executor |-> TRUE, idempotent_mode |-> m, parallel |-> par]
  /\ existing \in {NothingExists, EverythingExists}
  /\ failing = {}
  /\ InitRest

\* Inputs of the executed pipeline with a failing executor: a chain of
\* dependencies (each host on its predecessor or on nothing), host 1 with or
\* without a healthcheck and with one or more networks, nothing existing, and at
\* most MaxFaults failing operations among the runs, the wait and the connects
\* of host 1 and the create of network 1.
RECURSIVE SubsetsUpTo(_, _)
SubsetsUpTo(U, k) ==
  IF k = 0 THEN {{}}
  ELSE SubsetsUpTo(U, k - 1) \cup {S \cup {x} : S \in SubsetsUpTo(U, k - 1), x \in U}

FaultUniverse ==
  {Op("container.run", h, 1) : h \in HostIds}
    \cup {Op("healthcheck.wait", 1, 0), Op("network.create", 0, 1)}
    \cup {Op("network.connect", 1, n) : n \in NetIds \ {1}}

FailDeps == {d \in ExecDeps : \A h \in HostIds : d[h] \subseteq {h - 1}}

InitFail ==
  /\ \E d \in FailDeps, n \in ExecNetworks, hc \in {{}, {1}} :
       scenario = [hosts |-> [h \in HostIds |-> Host("web", d[h], n[h], h \in hc)],
                   networks |-> AllNetworks, services |-> <<>>,
                   flags |-> <<>>, vulnerabilities |-> <<>>]
  /\ \E par \in BOOLEAN :
       opts = [dry_run |-> FALSE, executor |-> TRUE, idempotent_mode |-> "skip", parallel |-> par]
  /\ existing = NothingExists
  /\ failing \in SubsetsUpTo(FaultUniverse, MaxFaults)
  /\ InitRest

\* Planner inputs for the conflict checks: up to MaxEntries network entries
\* (host, network, ip_address; 0: none) spread over the hosts, or up to
\* MaxEntries service ports (host, external; 0: none, protocol as written), each
\* port a service of its own referenced by its host ("own"), or all ports in one
\* service referenced by every host named ("shared").
SeqsUpTo(S, k) == UNION {[1..n -> S] : n \in 0..k}
IpEntries == HostIds \X NetIds \X (0..MaxIps)
Protocols == {"", "tcp", "TCP", "udp"}
PortEntries == HostIds \X (0..MaxPort) \X Protocols
Layouts == {"own", "shared"}

HostWithEntries(E, h) ==
  LET mine == SelectSeq(E, LAMBDA e : e[1] = h)
  IN [Host("web", {}, [i \in 1..Len(mine) |-> mine[i][2]], FALSE)
        EXCEPT !.ips = [i \in 1..Len(mine) |-> mine[i][3]]]

PortOf(e) == [internal |-> 80, external |-> e[2], protocol |-> e[3]]

ServicesOf(E, layout) ==
  IF layout = "own" THEN [k \in 1..Len(E) |-> [ports |-> <<PortOf(E[k])>>]]
  ELSE IF E = <<>> THEN <<>>
  ELSE <<[ports |-> [k \in 1..Len(E) |-> PortOf(E[k])]]>>

HostWithServices(E, layout, h) ==
  [Host("web", {}, <<1>>, FALSE)
     EXCEPT !.services = IF layout = "own"
                         THEN SelectSeq([k \in 1..Len(E) |-> k], LAMBDA k : E[k][1] = h)
                         ELSE IF \E k \in 1..Len(E) : E[k][1] = h THEN <<1>> ELSE <<>>]

InitIpConflict ==
  \E E \in SeqsUpTo(IpEntries, MaxEntries) :
    scenario = [hosts |-> [h \in HostIds |-> HostWithEntries(E, h)],
                networks |-> AllNetworks, services |-> <<>>,
                   flags |-> <<>>, vulnerabilities |-> <<>>]

InitPortConflict ==
  \E E \in SeqsUpTo(PortEntries, MaxEntries), layout \in Layouts :
    scenario = [hosts |-> [h \in HostIds |-> HostWithServices(E, layout, h)],
                networks |-> AllNetworks, services |-> ServicesOf(E, layout),
                flags |-> <<>>, vulnerabilities |-> <<>>]

InitConflict ==
  /\ InitIpConflict \/ InitPortConflict
  /\ opts = DefaultOpts
  /\ existing = NothingExists
  /\ failing = {}
  /\ InitRest

\* Inputs of a run whose healthcheck.wait is followed poll by poll: host 1, or
\* hosts 1 and 2, define a healthcheck; sequential execution, nothing existing,
\* every other command succeeds.
InitWait ==
  /\ \E hc \in {{1}, {1, 2}} :
       scenario = [hosts |-> [h \in HostIds |-> Host("web", {}, <<1>>, h \in hc)],
                   networks |-> AllNetworks, services |-> <<>>,
                   flags |-> <<>>, vulnerabilities |-> <<>>]
  /\ opts = [dry_run |-> FALSE, executor |-> TRUE, idempotent_mode |-> "skip", parallel |-> FALSE]
  /\ existing = NothingExists
  /\ failing = {}
  /\ InitRest

\* Inputs of the commands: validate_and_plan, the CLI commands validate, plan and
\* provision-cmd, and a direct call of provision on a fresh plan. Hosts 1 and 2
\* of either kind, host 1 without network, on network 1 or on an undeclared
\* network, host 2 on one or two networks, host 1 with or without limits of its
\* own; no flag, a sound flag, or flags with defects; host 1 naming no flag, a
\* declared flag or an undeclared flag; hosts 1 and 2 independent, depending on
\* each other, or host 2 depending on host 1; every schema verdict.
UnknownNet == MaxNets + 1
UnknownHost == MaxHosts + 1

GoodFlag ==
  [id |-> "flag1", value |-> "FLAG{a}", host_id |-> 1, type |-> "file",
   path |-> TRUE, variable |-> FALSE, table |-> FALSE, query |-> FALSE]

FlagLists ==
  {<<>>, <<GoodFlag>>,
   <<GoodFlag, [GoodFlag EXCEPT !.id = "flag2"]>>,
   <<GoodFlag, [GoodFlag EXCEPT !.value = "FLAG{b}"]>>,
   <<GoodFlag, GoodFlag>>,
   <<GoodFlag, [GoodFlag EXCEPT !.id = "flag2"], [GoodFlag EXCEPT !.id = "flag3"]>>,
   <<[GoodFlag EXCEPT !.host_id = UnknownHost]>>,
   <<[GoodFlag EXCEPT !.path = FALSE]>>,
   <<[GoodFlag EXCEPT !.type = "env_var"]>>,
   <<[GoodFlag EXCEPT !.type = "db_row", !.table = TRUE]>>}

PipelineTypings == {ty \in [HostIds -> {"web", "attacker"}] : \A h \in HostIds \ {1, 2} : ty[h] = "web"}

PipelineDeps(dep, h) ==
  CASE dep = "cycle" /\ h \in {1, 2} -> {3 - h}
    [] dep = "tree" /\ h = 2 -> {1}
    [] OTHER -> {}

PipelineHost(ty, dep, n1, n2, hf, res, h) ==
  [Host(ty[h], PipelineDeps(dep, h), IF h = 1 THEN n1 ELSE IF h = 2 THEN n2 ELSE <<1>>, FALSE)
     EXCEPT !.flags = IF h = 1 THEN hf ELSE <<>>,
            !.resources = IF h = 1 THEN res ELSE EmptyDict]

\* the resources block of a host: none, or limits of its own
PipelineResources ==
  {EmptyDict, [cpu_limit |-> "1.5", memory_limit |-> "512m", disk_limit |-> "2G"]}

\* the keyword arguments of provision(...) in provision_cmd and in a direct
\* call with or without a policy engine
KwargsOf(cmd) ==
  CASE cmd = "provision_cmd" ->
         {"dry_run", "executor", "isolate", "parallel", "security_profile", "policy_engine"}
    [] cmd = "provision" -> {"dry_run"}
    [] cmd = "provision_with_policy" -> {"dry_run", "policy_engine"}
    [] OTHER -> {}

Commands ==
  {"validate_and_plan", "validate_cmd", "plan_cmd", "provision_cmd", "provision",
   "provision_with_policy"}

InitPipeline ==
  /\ \E ty \in PipelineTypings, n1 \in {<<>>, <<1>>, <<UnknownNet>>}, n2 \in NetLists,
        fl \in FlagLists, hf \in {<<>>, <<"flag1">>, <<"ghost">>}, dep \in {"none", "cycle", "tree"},
        res \in PipelineResources :
       scenario = [hosts |-> [h \in HostIds |-> PipelineHost(ty, dep, n1, n2, hf, res, h)],
                   networks |-> AllNetworks, services |-> <<>>,
                   flags |-> fl, vulnerabilities |-> <<>>,
                   metadata |-> Metadata("", "easy")]
  /\ \E cmd \in Commands, v \in {"ok", "ValidationError", "SchemaError"},
        ex \in BOOLEAN, dk \in {"ok", "nonzero", "raise"} :
       /\ cmd \notin {"validate_and_plan", "validate_cmd"} => v = "ok"
       /\ cmd \notin {"provision", "provision_with_policy"} => scenario.hosts[1].resources = EmptyDict
       /\ cmd # "provision_cmd" => ~ex
       /\ ~ex => dk = "ok"
       /\ validation = [NoValidation EXCEPT !.schema = v]
       /\ cli = [pc |-> "start", command |-> cmd, kwargs |-> KwargsOf(cmd),
                 execute |-> ex, docker |-> dk, invoked |-> FALSE, exit |-> "running"]
       /\ opts = [DefaultOpts EXCEPT !.dry_run = ~ex, !.executor = ex]
  /\ existing = NothingExists
  /\ failing = {}
  /\ policy = NoPolicy
  /\ pool = NoPool
  /\ InitCore

\* Inputs of provision called on a given plan: ordered_components an ascending
\* list of some hosts of the scenario and possibly of an id the scenario does
\* not have; hosts 1 and 2 with or without networks, host 1 with up to two
\* networks and with or without healthcheck; host 2 depending on host 1 or not;
\* dry run, sequential and parallel execution; inspects that answer that
\* nothing exists, or that raise.
ProbesRaise == [nets |-> NetIds, containers |-> HostIds, probe_raises |-> TRUE]

GivenNetworks ==
  {n \in [HostIds -> NetLists \cup {<<>>}] :
     /\ Len(n[1]) <= 2
     /\ \A h \in HostIds \ {1} : Len(n[h]) <= 1
     /\ \A h \in HostIds \ {1, 2} : n[h] = <<1>>}

GivenComponents == {SortedBy(S, [h \in S |-> <<0, h>>]) : S \in SUBSET (HostIds \cup {UnknownHost})}

GivenOpts ==
  {[dry_run |-> TRUE, executor |-> FALSE, idempotent_mode |-> "skip", parallel |-> FALSE],
   [dry_run |-> TRUE, executor |-> TRUE, idempotent_mode |-> "skip", parallel |-> FALSE],
   [dry_run |-> FALSE, executor |-> TRUE, idempotent_mode |-> "skip", parallel |-> FALSE],
   [dry_run |-> FALSE, executor |-> TRUE, idempotent_mode |-> "skip", parallel |-> TRUE]}

InitGiven ==
  /\ \E n \in GivenNetworks, dep \in {"none", "tree"}, hc \in BOOLEAN :
       scenario = [hosts |-> [h \in HostIds |-> Host("web", PipelineDeps(dep, h), n[h], hc /\ h = 1)],
                   networks |-> AllNetworks, services |-> <<>>,
                   flags |-> <<>>, vulnerabilities |-> <<>>]
  /\ \E oc \in GivenComponents :
       plan = [ordered_components |-> oc, network_topology |-> scenario.networks,
               topology_hosts |-> topology_hosts(scenario), errors |-> <<>>]
  /\ opts \in GivenOpts
  /\ existing \in {NothingExists, ProbesRaise}
  /\ ~opts.executor => existing = NothingExists
  /\ failing = {}
  /\ pc = "planned"
  /\ ops = <<>>
  /\ errors = <<>>
  /\ started = <<>>
  /\ finished = <<>>
  /\ depth = 0
  /\ queue = <<>>
  /\ workers = 0
  /\ wait = NoWait
  /\ validation = NoValidation
  /\ cli = NoCli
  /\ policy = NoPolicy
  /\ pool = NoPool

\* Inputs of the policy engine: every default tier of the CLI, no policy
\* registered or all of them, metadata with or without resource_policy (a
\* registered name or not) and difficulty (a tier in any case, custom, or no
\* tier), and a host config with no limit, one limit, the three limits of a
\* resources block, or only a network_bandwidth.
HostConfigs ==
  {[id |-> "host_web"],
   [id |-> "host_web", cpu_limit |-> "1.5"],
   [id |-> "host_web", pids_limit |-> "64"],
   [id |-> "host_web", cpu_limit |-> "1.5", memory_limit |-> "512m", disk_limit |-> "2G"],
   [id |-> "host_web", network_bandwidth |-> "10m"]}

InitPolicy ==
  /\ \E dt \in DifficultyTier \ {"custom"}, reg \in {{}, DOMAIN custom_policies},
        rp \in {"", "minimal", "generous", "advisory", "advisory_open", "unknown"},
        df \in {"", "easy", "EASY", "Medium", "hard", "custom", "insane"},
        hc \in HostConfigs :
       policy = [pc |-> "start", engine |-> PolicyEngine(dt, reg), metadata |-> Metadata(rp, df),
                 passed |-> hc, host_config |-> hc, chosen |-> EmptyDict, result |-> EmptyDict]
  /\ scenario = [hosts |-> [h \in HostIds |-> Host("web", {}, <<1>>, FALSE)],
                 networks |-> AllNetworks, services |-> <<>>,
                 flags |-> <<>>, vulnerabilities |-> <<>>]
  /\ opts = DefaultOpts
  /\ existing = NothingExists
  /\ failing = {}
  /\ InitCore
  /\ validation = NoValidation
  /\ cli = NoCli
  /\ pool = NoPool

\* ------------------------------------------------------------ actions
PlanScenario ==
  /\ pc = "start"
  /\ \E order \in Perms : plan' = plan_scenario(scenario, order)
  /\ pc' = "planned"
  /\ UNCHANGED <<scenario, opts, existing, failing, wait, validation, cli, policy, pool, ops, errors, started, finished, depth, queue, workers>>

\* provision executing whenever an executor is supplied
ProvisionIgnoresDryRun ==
  /\ pc = "planned"
  /\ ops' = EmitOps(plan, scenario, opts, existing)
  /\ errors' = EmitErrors(plan, scenario)
  /\ started' = [i \in 1..Len(ops') |-> 0]
  /\ finished' = [i \in 1..Len(ops') |-> 0]
  /\ IF opts.executor
     THEN IF opts.parallel
          THEN pc' = "networks" /\ queue' = network_ops(ops')
          ELSE pc' = "sequential" /\ queue' = [i \in 1..Len(ops') |-> i]
     ELSE pc' = "done" /\ queue' = <<>>
  /\ UNCHANGED <<scenario, opts, existing, failing, wait, validation, cli, policy, pool, plan, depth, workers>>

\* provision up to the start of the execution
Provision ==
  /\ pc = "planned"
  /\ ops' = EmitOps(plan, scenario, opts, existing)
  /\ errors' = EmitErrors(plan, scenario)
  /\ started' = [i \in 1..Len(ops') |-> 0]
  /\ finished' = [i \in 1..Len(ops') |-> 0]
  /\ IF ~opts.dry_run /\ opts.executor
     THEN IF opts.parallel
          THEN pc' = "networks" /\ queue' = network_ops(ops')
          ELSE pc' = "sequential" /\ queue' = [i \in 1..Len(ops') |-> i]
     ELSE pc' = "done" /\ queue' = <<>>
  /\ UNCHANGED <<scenario, opts, existing, failing, wait, validation, cli, policy, pool, plan, depth, workers>>

\* the error _execute_op returns for operation i, if any: none for a *.skip, a
\* health timeout for a failed wait, a failed command or an execution error
\* for the others
ExecError(os, f, i) ==
  IF os[i].type \in {"network.create.skip", "container.run.skip"} THEN <<>>
  ELSE IF os[i] \notin f THEN <<>>
  ELSE IF os[i].type = "healthcheck.wait"
  THEN <<[error |-> "did not become healthy in time", name |-> os[i].name, op |-> i]>>
  ELSE <<[error |-> "Command failed", name |-> os[i].name, op |-> i]>>

\* _execute_op run to its end by the calling thread, its error appended
ExecuteHere(i) ==
  /\ started' = [started EXCEPT ![i] = @ + 1]
  /\ finished' = [finished EXCEPT ![i] = @ + 1]
  /\ errors' = errors \o ExecError(ops, failing, i)

\* the sequential loop left at the first error
ExecSequentialStopOnError ==
  /\ pc = "sequential"
  /\ queue # <<>>
  /\ ExecuteHere(Head(queue))
  /\ queue' = IF ExecError(ops, failing, Head(queue)) # <<>> THEN <<>> ELSE Tail(queue)
  /\ UNCHANGED <<scenario, opts, existing, failing, wait, validation, cli, policy, pool, pc, plan, ops, depth, workers>>

\* sequential execution: the next operation in emitted order
ExecSequential ==
  /\ pc = "sequential"
  /\ queue # <<>>
  /\ ExecuteHere(Head(queue))
  /\ queue' = Tail(queue)
  /\ UNCHANGED <<scenario, opts, existing, failing, wait, validation, cli, policy, pool, pc, plan, ops, depth, workers>>

SequentialDone ==
  /\ pc = "sequential"
  /\ queue = <<>>
  /\ pc' = "done"
  /\ UNCHANGED <<scenario, opts, existing, failing, wait, validation, cli, policy, pool, plan, ops, errors, started, finished, depth, queue, workers>>

\* parallel execution: the loop over network_ops
ExecNetworkOp ==
  /\ pc = "networks"
  /\ queue # <<>>
  /\ ExecuteHere(Head(queue))
  /\ queue' = Tail(queue)
  /\ UNCHANGED <<scenario, opts, existing, failing, wait, validation, cli, policy, pool, pc, plan, ops, depth, workers>>

\* the depths of the hosts of the plan
CalcDepths ==
  /\ pc = "networks"
  /\ queue = <<>>
  /\ pc' = IF DepthDiverges(scenario, plan) THEN "raised" ELSE "wave"
  /\ depth' = 0
  /\ UNCHANGED <<scenario, opts, existing, failing, wait, validation, cli, policy, pool, plan, ops, errors, started, finished, queue, workers>>

\* the pool of one wave is created and its operations are submitted
SubmitWave ==
  /\ pc = "wave"
  /\ LET w == wave_ops(scenario, plan, ops, depth)
     IN IF max_workers(Len(w)) = 0
        THEN pc' = "raised" /\ UNCHANGED <<queue, workers>>
        ELSE pc' = "pool" /\ queue' = w /\ workers' = max_workers(Len(w))
  /\ UNCHANGED <<scenario, opts, existing, failing, wait, validation, cli, policy, pool, plan, ops, errors, started, finished, depth>>

Running == {i \in 1..Len(ops) : started[i] > finished[i]}

\* a free worker takes the next work item
WorkerStart ==
  /\ pc = "pool"
  /\ queue # <<>>
  /\ Cardinality(Running) < workers
  /\ started' = [started EXCEPT ![Head(queue)] = @ + 1]
  /\ queue' = Tail(queue)
  /\ UNCHANGED <<scenario, opts, existing, failing, wait, validation, cli, policy, pool, pc, plan, ops, errors, finished, depth, workers>>

\* _execute_op returns in a worker; the main thread appends its error
WorkerFinish ==
  /\ pc = "pool"
  /\ \E i \in Running :
       /\ finished' = [finished EXCEPT ![i] = @ + 1]
       /\ errors' = errors \o ExecError(ops, failing, i)
  /\ UNCHANGED <<scenario, opts, existing, failing, wait, validation, cli, policy, pool, pc, plan, ops, started, depth, queue, workers>>

\* the waves and the connects given up once an error was collected
PoolExitAbortOnError ==
  /\ pc = "pool"
  /\ queue = <<>>
  /\ Running = {}
  /\ IF errors # <<>>
     THEN pc' = "done" /\ depth' = depth /\ queue' = <<>>
     ELSE IF depth < max_depth(scenario, plan)
     THEN pc' = "wave" /\ depth' = depth + 1 /\ queue' = <<>>
     ELSE pc' = "connects" /\ depth' = depth /\ queue' = connect_ops(ops)
  /\ UNCHANGED <<scenario, opts, existing, failing, wait, validation, cli, policy, pool, plan, ops, errors, started, finished, workers>>

\* the pool is left when every future is done: next wave, or the connects
PoolExit ==
  /\ pc = "pool"
  /\ queue = <<>>
  /\ Running = {}
  /\ IF depth < max_depth(scenario, plan)
     THEN pc' = "wave" /\ depth' = depth + 1 /\ queue' = <<>>
     ELSE pc' = "connects" /\ depth' = depth /\ queue' = connect_ops(ops)
  /\ UNCHANGED <<scenario, opts, existing, failing, wait, validation, cli, policy, pool, plan, ops, errors, started, finished, workers>>

\* the loop over connect_ops
ExecConnectOp ==
  /\ pc = "connects"
  /\ queue # <<>>
  /\ ExecuteHere(Head(queue))
  /\ queue' = Tail(queue)
  /\ UNCHANGED <<scenario, opts, existing, failing, wait, validation, cli, policy, pool, pc, plan, ops, depth, workers>>

ConnectsDone ==
  /\ pc = "connects"
  /\ queue = <<>>
  /\ pc' = "done"
  /\ UNCHANGED <<scenario, opts, existing, failing, wait, validation, cli, policy, pool, plan, ops, errors, started, finished, depth, queue, workers>>

NextPlan == PlanScenario

SpecPlan == InitPlan /\ [][NextPlan]_vars

SpecConflict == InitConflict /\ [][NextPlan]_vars

NextEmit == PlanScenario \/ Provision

SpecEmit == InitEmit /\ [][NextEmit]_vars

Next ==
  \/ PlanScenario
  \/ Provision
  \/ ExecSequential
  \/ SequentialDone
  \/ ExecNetworkOp
  \/ CalcDepths
  \/ SubmitWave
  \/ WorkerStart
  \/ WorkerFinish
  \/ PoolExit
  \/ ExecConnectOp
  \/ ConnectsDone

Spec == Init /\ [][Next]_vars

SpecFail == InitFail /\ [][Next]_vars

\* Inputs of dry runs beside executed runs: the scenarios of the executed
\* pipeline, every combination of dry_run, executor, idempotent mode and
\* parallel; the runtime holds no network or all, and no container, container 1
\* or all, also when no executor is there to probe it.
InitDry ==
  /\ \E d \in ExecDeps, n \in ExecNetworks, hc \in SUBSET HostIds :
       scenario = [hosts |-> [h \in HostIds |-> Host("web", d[h], n[h], h \in hc)],
                   networks |-> AllNetworks, services |-> <<>>,
                   flags |-> <<>>, vulnerabilities |-> <<>>]
  /\ \E dry \in BOOLEAN, e \in BOOLEAN, par \in BOOLEAN, m \in {"skip", "replace"} :
       opts = [dry_run |-> dry, executor |-> e, idempotent_mode |-> m, parallel |-> par]
  /\ \E en \in {{}, NetIds}, ec \in {{}, {1}, HostIds} :
       existing = [nets |-> en, containers |-> ec, probe_raises |-> FALSE]
  /\ (~opts.dry_run /\ opts.executor) => existing \in {NothingExists, EverythingExists}
  /\ failing = {}
  /\ InitRest

SpecDry == InitDry /\ [][Next]_vars

\* ------------------------------------------------------------ the pool, step by step
\* The threads that touch errors are named by a number: the thread that called
\* provision, and the pool's worker running operation i (i >= 1).
MainThread == 0

InitCollect == InitFail /\ opts.parallel

\* a worker that appends the error of its operation itself
WorkerDoneAppends ==
  /\ pc = "pool"
  /\ \E i \in Running :
       /\ finished' = [finished EXCEPT ![i] = @ + 1]
       /\ errors' = errors \o ExecError(ops, failing, i)
       /\ pool' = [pool EXCEPT !.appending = @ \cup {i}]
  /\ UNCHANGED <<scenario, opts, existing, failing, wait, validation, cli, policy, pc, plan, ops, started, depth, queue, workers>>

\* _execute_op returns (op, err) in a worker: its future is done
WorkerDone ==
  /\ pc = "pool"
  /\ \E i \in Running :
       /\ finished' = [finished EXCEPT ![i] = @ + 1]
       /\ pool' = [pool EXCEPT !.done = Append(@, i)]
  /\ UNCHANGED <<scenario, opts, existing, failing, wait, validation, cli, policy, pc, plan, ops, errors, started, depth, queue, workers>>

\* as_completed yields the next done future to the calling thread, which reads
\* its result: without error it goes on, with an error it starts the append
CollectBegin ==
  /\ pc = "pool"
  /\ pool.done # <<>>
  /\ pool.appending = {}
  /\ pool' = IF ExecError(ops, failing, Head(pool.done)) = <<>>
             THEN [pool EXCEPT !.done = Tail(@)]
             ELSE [pool EXCEPT !.appending = {MainThread}]
  /\ UNCHANGED <<scenario, opts, existing, failing, wait, validation, cli, policy, pc, plan, ops, errors, started, finished, depth, queue, workers>>

\* errors.append(err) by the calling thread
CollectEnd ==
  /\ pc = "pool"
  /\ MainThread \in pool.appending
  /\ errors' = errors \o ExecError(ops, failing, Head(pool.done))
  /\ pool' = [pool EXCEPT !.done = Tail(@), !.appending = {}]
  /\ UNCHANGED <<scenario, opts, existing, failing, wait, validation, cli, policy, pc, plan, ops, started, finished, depth, queue, workers>>

\* the with block is left after the as_completed loop has seen every future
PoolExitCollected ==
  /\ pool.done = <<>>
  /\ pool.appending = {}
  /\ PoolExit

NextCollect ==
  \/ PlanScenario
  \/ Provision
  \/ ExecNetworkOp
  \/ CalcDepths
  \/ SubmitWave
  \/ WorkerStart
  \/ WorkerDone
  \/ CollectBegin
  \/ CollectEnd
  \/ PoolExitCollected
  \/ ExecConnectOp
  \/ ConnectsDone

SpecCollect == InitCollect /\ [][NextCollect]_vars

\* ------------------------------------------------------------ policy engine calls
\* policy = engine.get_policy(scenario_metadata)
GetPolicy ==
  /\ policy.pc = "start"
  /\ policy' = IF get_policy(policy.engine, policy.metadata) = ValueError
               THEN [policy EXCEPT !.pc = "raised"]
               ELSE [policy EXCEPT !.pc = "got",
                                   !.chosen = get_policy(policy.engine, policy.metadata)]
  /\ UNCHANGED <<scenario, opts, existing, failing, wait, validation, cli, pool, pc, plan, ops, errors, started, finished, depth, queue, workers>>

\* result = engine.apply_policy(host_config, policy): the result is a new dict,
\* host_config is left as it was passed
ApplyPolicy ==
  /\ policy.pc = "got"
  /\ policy' = [policy EXCEPT !.pc = "applied",
                              !.result = apply_policy(policy.host_config, policy.chosen)]
  /\ UNCHANGED <<scenario, opts, existing, failing, wait, validation, cli, pool, pc, plan, ops, errors, started, finished, depth, queue, workers>>

NextPolicy == GetPolicy \/ ApplyPolicy

SpecPolicy == InitPolicy /\ [][NextPolicy]_vars

\* provision on a given plan
NextGiven ==
  \/ Provision
  \/ ExecSequential
  \/ SequentialDone
  \/ ExecNetworkOp
  \/ CalcDepths
  \/ SubmitWave
  \/ WorkerStart
  \/ WorkerFinish
  \/ PoolExit
  \/ ExecConnectOp
  \/ ConnectsDone

SpecGiven == InitGiven /\ [][NextGiven]_vars

\* ------------------------------------------------------------ commands
\* the parameters of provision
ProvisionParams ==
  {"plan", "scenario", "dry_run", "executor", "isolate", "idempotent_mode", "parallel"}

\* validate_and_plan and the validate command: validator.validate(scenario)
Validate ==
  /\ cli.command \in {"validate_and_plan", "validate_cmd"}
  /\ cli.pc = "start"
  /\ validation' = validate(scenario, validation.schema) @@ [schema |-> validation.schema]
  /\ cli' = [cli EXCEPT !.pc = "validated"]
  /\ UNCHANGED <<scenario, opts, existing, failing, wait, policy, pool, pc, plan, ops, errors, started, finished, depth, queue, workers>>

\* validate_and_plan: return validation, None
ReturnNone ==
  /\ cli.command = "validate_and_plan"
  /\ cli.pc = "validated"
  /\ ~validation.is_valid
  /\ cli' = [cli EXCEPT !.pc = "returned"]
  /\ UNCHANGED <<scenario, opts, existing, failing, wait, validation, policy, pool, pc, plan, ops, errors, started, finished, depth, queue, workers>>

\* validate_and_plan: plan = plan_scenario(scenario); return validation, plan
PipelinePlan ==
  /\ cli.command = "validate_and_plan"
  /\ cli.pc = "validated"
  /\ validation.is_valid
  /\ pc = "start"
  /\ \E order \in Perms : plan' = plan_scenario(scenario, order)
  /\ pc' = "planned"
  /\ cli' = [cli EXCEPT !.pc = "returned"]
  /\ UNCHANGED <<scenario, opts, existing, failing, wait, validation, policy, pool, ops, errors, started, finished, depth, queue, workers>>

\* provision_cmd (and the callers of provision): plan_result = plan_scenario(data)
CmdPlan ==
  /\ cli.command \in {"plan_cmd", "provision_cmd", "provision", "provision_with_policy"}
  /\ cli.pc = "start"
  /\ pc = "start"
  /\ \E order \in Perms : plan' = plan_scenario(scenario, order)
  /\ pc' = "planned"
  /\ cli' = [cli EXCEPT !.pc = "planned"]
  /\ UNCHANGED <<scenario, opts, existing, failing, wait, validation, policy, pool, ops, errors, started, finished, depth, queue, workers>>

\* provision_cmd: planning errors are printed and the command exits with 1;
\* otherwise docker info is tried when executing, and a failure exits with 1
CmdGate ==
  /\ cli.command = "provision_cmd"
  /\ cli.pc = "planned"
  /\ cli' = IF plan.errors # <<>> \/ (cli.execute /\ cli.docker # "ok")
            THEN [cli EXCEPT !.pc = "exit", !.exit = "1"]
            ELSE [cli EXCEPT !.pc = "call"]
  /\ UNCHANGED <<scenario, opts, existing, failing, wait, validation, policy, pool, pc, plan, ops, errors, started, finished, depth, queue, workers>>

\* the validate command: SystemExit(1) unless result.is_valid
CmdValidateExit ==
  /\ cli.command = "validate_cmd"
  /\ cli.pc = "validated"
  /\ cli' = [cli EXCEPT !.pc = "exit", !.exit = IF validation.is_valid THEN "0" ELSE "1"]
  /\ UNCHANGED <<scenario, opts, existing, failing, wait, validation, policy, pool, pc, plan, ops, errors, started, finished, depth, queue, workers>>

\* the plan command: SystemExit(1) unless plan_result.is_successful
CmdPlanExit ==
  /\ cli.command = "plan_cmd"
  /\ cli.pc = "planned"
  /\ cli' = [cli EXCEPT !.pc = "exit", !.exit = IF plan.errors = <<>> THEN "0" ELSE "1"]
  /\ UNCHANGED <<scenario, opts, existing, failing, wait, validation, policy, pool, pc, plan, ops, errors, started, finished, depth, queue, workers>>

\* a caller that hands its plan to provision whatever the plan's errors
CallDirect ==
  /\ cli.command \in {"provision", "provision_with_policy"}
  /\ cli.pc = "planned"
  /\ cli' = [cli EXCEPT !.pc = "call"]
  /\ UNCHANGED <<scenario, opts, existing, failing, wait, validation, policy, pool, pc, plan, ops, errors, started, finished, depth, queue, workers>>

\* provision(...) is called: a keyword that is no parameter raises TypeError,
\* which provision_cmd does not catch: the command ends with status 1
InvokeProvision ==
  /\ cli.pc = "call"
  /\ cli' = [cli EXCEPT !.invoked = TRUE,
                        !.pc = IF cli.kwargs \subseteq ProvisionParams THEN "provision" ELSE "raised",
                        !.exit = IF cli.kwargs \subseteq ProvisionParams \/ cli.command # "provision_cmd"
                                 THEN @ ELSE "1"]
  /\ UNCHANGED <<scenario, opts, existing, failing, wait, validation, policy, pool, pc, plan, ops, errors, started, finished, depth, queue, workers>>

\* the body of provision for the call that was bound
ProvisionCalled ==
  /\ cli.pc = "provision"
  /\ Provision

NextPipeline ==
  \/ Validate
  \/ ReturnNone
  \/ PipelinePlan
  \/ CmdPlan
  \/ CmdGate
  \/ CmdValidateExit
  \/ CmdPlanExit
  \/ CallDirect
  \/ InvokeProvision
  \/ ProvisionCalled

SpecPipeline == InitPipeline /\ [][NextPipeline]_vars

\* ------------------------------------------------------------ healthcheck.wait
\* results of the health probe: a record with Status healthy, none, starting or
\* unhealthy, a record without Status, the text null, no output, a nonzero exit
\* code, output that is not JSON, or an exception of the executor
HealthResults ==
  {"healthy", "none", "nostatus", "starting", "unhealthy", "null", "empty", "nonzero", "invalid", "raise"}
\* results of the running probe
RunningResults == {"true", "false", "nonzero", "raise"}
CallTimes == 0..MaxCallTime

WaitReturns(b) == [wait EXCEPT !.pc = "returned", !.result = b]

\* the sequential loop reaches a healthcheck.wait: _wait_for_container_health is called
WaitCall ==
  /\ pc = "sequential"
  /\ queue # <<>>
  /\ ops[Head(queue)].type = "healthcheck.wait"
  /\ wait.pc = "idle"
  /\ wait' = [pc |-> "loop", elapsed |-> 0, health |-> "", running |-> "", result |-> FALSE]
  /\ started' = [started EXCEPT ![Head(queue)] = @ + 1]
  /\ UNCHANGED <<scenario, opts, existing, failing, validation, cli, policy, pool, pc, plan, ops, errors, finished, depth, queue, workers>>

\* while time.time() - start < timeout
WaitCheck ==
  /\ wait.pc = "loop"
  /\ wait' = IF wait.elapsed < WaitTimeout
             THEN [wait EXCEPT !.pc = "health", !.health = "", !.running = ""]
             ELSE WaitReturns(FALSE)
  /\ UNCHANGED <<scenario, opts, existing, failing, validation, cli, policy, pool, pc, plan, ops, errors, started, finished, depth, queue, workers>>

\* the health probe returned failure at once on an unhealthy status
WaitHealthProbeFailFast ==
  /\ wait.pc = "health"
  /\ \E r \in HealthResults, dt \in CallTimes :
       LET w == [wait EXCEPT !.health = r, !.elapsed = @ + dt] IN
       wait' = IF r \in {"healthy", "none", "nostatus"} THEN [w EXCEPT !.pc = "returned", !.result = TRUE]
               ELSE IF r = "unhealthy" THEN [w EXCEPT !.pc = "returned", !.result = FALSE]
               ELSE IF r \in {"starting", "empty", "nonzero"} THEN [w EXCEPT !.pc = "running"]
               ELSE [w EXCEPT !.pc = "loop", !.elapsed = @ + PollSleep]
  /\ UNCHANGED <<scenario, opts, existing, failing, validation, cli, policy, pool, pc, plan, ops, errors, started, finished, depth, queue, workers>>

\* docker inspect .State.Health: healthy, none or a missing Status return True;
\* another status, no output or a nonzero code go on to the running probe; null,
\* invalid JSON or an exception are swallowed and followed by the sleep
WaitHealthProbe ==
  /\ wait.pc = "health"
  /\ \E r \in HealthResults, dt \in CallTimes :
       LET w == [wait EXCEPT !.health = r, !.elapsed = @ + dt] IN
       wait' = IF r \in {"healthy", "none", "nostatus"} THEN [w EXCEPT !.pc = "returned", !.result = TRUE]
               ELSE IF r \in {"starting", "unhealthy", "empty", "nonzero"} THEN [w EXCEPT !.pc = "running"]
               ELSE [w EXCEPT !.pc = "loop", !.elapsed = @ + PollSleep]
  /\ UNCHANGED <<scenario, opts, existing, failing, validation, cli, policy, pool, pc, plan, ops, errors, started, finished, depth, queue, workers>>

\* the running probe going on to the next poll without the sleep
WaitRunningProbeNoSleep ==
  /\ wait.pc = "running"
  /\ \E r \in RunningResults, dt \in CallTimes :
       LET w == [wait EXCEPT !.running = r, !.elapsed = @ + dt] IN
       wait' = IF r = "true" THEN [w EXCEPT !.pc = "loop"]
               ELSE IF r = "raise" THEN [w EXCEPT !.pc = "loop", !.elapsed = @ + PollSleep]
               ELSE [w EXCEPT !.pc = "returned", !.result = FALSE]
  /\ UNCHANGED <<scenario, opts, existing, failing, validation, cli, policy, pool, pc, plan, ops, errors, started, finished, depth, queue, workers>>

\* docker inspect .State.Running: true sleeps and polls again; false or a
\* nonzero code return False; an exception is swallowed and followed by the sleep
WaitRunningProbe ==
  /\ wait.pc = "running"
  /\ \E r \in RunningResults, dt \in CallTimes :
       LET w == [wait EXCEPT !.running = r, !.elapsed = @ + dt] IN
       wait' = IF r \in {"true", "raise"} THEN [w EXCEPT !.pc = "loop", !.elapsed = @ + PollSleep]
               ELSE [w EXCEPT !.pc = "returned", !.result = FALSE]
  /\ UNCHANGED <<scenario, opts, existing, failing, validation, cli, policy, pool, pc, plan, ops, errors, started, finished, depth, queue, workers>>

\* _execute_op returns the outcome of the wait to the sequential loop
WaitReturn ==
  /\ pc = "sequential"
  /\ wait.pc = "returned"
  /\ finished' = [finished EXCEPT ![Head(queue)] = @ + 1]
  /\ errors' = errors \o ExecError(ops, IF wait.result THEN {} ELSE {ops[Head(queue)]}, Head(queue))
  /\ queue' = Tail(queue)
  /\ wait' = NoWait
  /\ UNCHANGED <<scenario, opts, existing, failing, validation, cli, policy, pool, pc, plan, ops, started, depth, workers>>

\* the sequential loop on an operation that is not a healthcheck.wait
ExecSequentialOther ==
  /\ queue # <<>>
  /\ ops[Head(queue)].type # "healthcheck.wait"
  /\ ExecSequential

NextWait ==
  \/ PlanScenario
  \/ Provision
  \/ ExecSequentialOther
  \/ SequentialDone
  \/ WaitCall
  \/ WaitCheck
  \/ WaitHealthProbe
  \/ WaitRunningProbe
  \/ WaitReturn

SpecWait == InitWait /\ [][NextWait]_vars

\* the thread that runs the sequential loop keeps running
SpecWaitFair == SpecWait /\ WF_vars(NextWait)

\* ------------------------------------------------------------ properties
Pos(seq, x) == CHOOSE i \in 1..Len(seq) : seq[i] = x
Acyclic(sc) == \A h \in HostIds : h \notin DepsOf(sc, h)
IsAttacker(h) == scenario.hosts[h].type = "attacker"
OpIds == 1..Len(ops)
Executing == pc \in {"sequential", "networks", "wave", "pool", "connects", "done", "raised"} /\ ~opts.dry_run

\* depth(h) = 0 if depends_on(h) is empty, else 1 + the greatest depth of its
\* dependencies
RECURSIVE DepthOf(_)
DepthOf(h) ==
  IF scenario.hosts[h].depends_on = {} THEN 0
  ELSE 1 + Max({DepthOf(d) : d \in scenario.hosts[h].depends_on})

Count(os, t) == Len(SelectSeq(os, LAMBDA op : op.type = t))

RECURSIVE SumExtraNetworks(_)
SumExtraNetworks(H) ==
  IF H = {} THEN 0
  ELSE LET h == CHOOSE x \in H : TRUE
       IN (IF Len(scenario.hosts[h].networks) > 1 THEN Len(scenario.hosts[h].networks) - 1 ELSE 0)
            + SumExtraNetworks(H \ {h})

\* C1: in the plan of a scenario with an acyclic depends_on graph, every
\* dependency u of a host v is placed strictly before v in ordered_components.
C1_DependencyBeforeDependent ==
  (pc = "planned" /\ Acyclic(scenario)) =>
    \A v \in HostIds : \A u \in scenario.hosts[v].depends_on :
      Pos(plan.ordered_components, u) < Pos(plan.ordered_components, v)

\* C2: no attacker host stands before a non-attacker host in
\* ordered_components, whatever the dependencies.
C2_AttackerLast ==
  pc = "planned" =>
    \A i, j \in 1..Len(plan.ordered_components) :
      (i < j /\ IsAttacker(plan.ordered_components[i])) => IsAttacker(plan.ordered_components[j])

\* C2 witness: a plan was made for a scenario where a non-attacker depends on
\* an attacker of smaller id.
C2_Witness ==
  /\ pc = "planned"
  /\ \E a, n \in HostIds :
       a < n /\ IsAttacker(a) /\ ~IsAttacker(n) /\ a \in scenario.hosts[n].depends_on

C4_ConnectAfterRun ==
  (Executing /\ opts.parallel) =>
    \A i, j \in OpIds :
      (ops[i].type = "network.connect" /\ started[i] > 0
         /\ ops[j].type = "container.run" /\ ops[j].name = ops[i].name) => finished[j] > 0

\* C5: sequential or parallel, a container.run has started only if every
\* network.create and network.remove has been executed; in parallel mode these
\* are executed one after the other in emitted order.
C5_NetworksBeforeContainers ==
  Executing =>
    \A i, j \in OpIds :
      ops[j].type \in {"network.create", "network.remove"} =>
        /\ (ops[i].type = "container.run" /\ started[i] > 0) => finished[j] > 0
        /\ (ops[i].type \in {"network.create", "network.remove"} /\ j < i /\ started[i] > 0)
             => finished[j] > 0

\* C5 witness: in parallel replace mode with everything existing a
\* container.run is in flight.
C5_Witness ==
  /\ Executing /\ opts.parallel /\ opts.idempotent_mode = "replace"
  /\ Count(ops, "network.remove") > 0
  /\ \E i \in OpIds : ops[i].type = "container.run" /\ started[i] > finished[i]

\* C6: in parallel execution the healthcheck.wait of a host starts only after
\* the container.run of the same host has returned.
C6_WaitAfterRun ==
  (Executing /\ opts.parallel) =>
    \A i, j \in OpIds :
      (ops[i].type = "healthcheck.wait" /\ started[i] > 0
         /\ ops[j].type = "container.run" /\ ops[j].name = ops[i].name) => finished[j] > 0

\* C7: in skip mode with every probe reporting "exists", every emitted
\* operation is a network.create.skip or a container.run.skip.
C7_SkipOnly ==
  (pc = "done" /\ opts.executor /\ opts.idempotent_mode = "skip" /\ existing = EverythingExists) =>
    \A i \in OpIds : ops[i].type \in {"network.create.skip", "container.run.skip"}

C9_WaitFollowsRun ==
  pc = "done" =>
    /\ \A i \in OpIds :
         (ops[i].type = "container.run" /\ scenario.hosts[ops[i].name].healthcheck) =>
           (i < Len(ops) /\ ops[i + 1] = Op("healthcheck.wait", ops[i].name, 0))
    /\ \A i \in OpIds :
         ops[i].type = "healthcheck.wait" =>
           /\ scenario.hosts[ops[i].name].healthcheck
           /\ \A j \in OpIds : ~(ops[j].type = "container.run.skip" /\ ops[j].name = ops[i].name)

\* C10: a dry run in skip mode with nothing existing emits one container.run
\* per host, one network.create per network and, per host, one network.connect
\* for each network beyond the first.
C10_OperationCounts ==
  (pc = "done" /\ opts.dry_run /\ opts.idempotent_mode = "skip"
     /\ (~opts.executor \/ existing = NothingExists)) =>
    /\ Count(ops, "container.run") = Cardinality(HostIds)
    /\ Count(ops, "network.create") = Len(scenario.networks)
    /\ Count(ops, "network.connect") = SumExtraNetworks(HostIds)

\* C10 witness: such a dry run ended for a scenario with a host on more than
\* one network.
C10_Witness ==
  /\ pc = "done" /\ opts.dry_run /\ opts.idempotent_mode = "skip"
  /\ (~opts.executor \/ existing = NothingExists)
  /\ \E h \in HostIds : Len(scenario.hosts[h].networks) > 1

\* the names of the operations of type t, in emitted order
NamesOf(os, t) ==
  [i \in 1..Len(SelectSeq(os, LAMBDA op : op.type = t)) |-> SelectSeq(os, LAMBDA op : op.type = t)[i].name]

\* the networks of the network.connect operations of host h, in emitted order
ConnectNetworks(os, h) ==
  [i \in 1..Len(SelectSeq(os, LAMBDA op : op.type = "network.connect" /\ op.name = h)) |->
     SelectSeq(os, LAMBDA op : op.type = "network.connect" /\ op.name = h)[i].network]

\* C11: in the emitted stream the network create/skip/remove operations come
\* before every operation of a host; the container.run operations come in the
\* order of plan.ordered_components; per host the run (on networks[0]) comes
\* before the healthcheck.wait, which comes before the network.connect
\* operations, one per network at index >= 1 in declared order.
C11_EmittedOrder ==
  pc = "done" =>
    /\ \A i, j \in OpIds :
         (ops[i].type \in {"network.create", "network.create.skip", "network.remove"}
            /\ ops[j].name # 0) => i < j
    /\ NamesOf(ops, "container.run")
         = SelectSeq(plan.ordered_components, LAMBDA h : h \in Range(NamesOf(ops, "container.run")))
    /\ \A i, j \in OpIds :
         (ops[i].name # 0 /\ ops[i].name = ops[j].name) =>
           /\ (ops[i].type = "container.run" /\ ops[j].type \in {"healthcheck.wait", "network.connect"})
                => i < j
           /\ (ops[i].type = "healthcheck.wait" /\ ops[j].type = "network.connect") => i < j
    /\ \A i \in OpIds :
         ops[i].type = "container.run" => ops[i].network = scenario.hosts[ops[i].name].networks[1]
    /\ \A h \in HostIds : ConnectNetworks(ops, h) = Tail(scenario.hosts[h].networks)

\* C11 witness: the stream was emitted for an attacker of smallest id that has
\* a healthcheck and a second network and is created.
C11_Witness ==
  /\ pc = "done"
  /\ IsAttacker(1) /\ scenario.hosts[1].healthcheck /\ Len(scenario.hosts[1].networks) > 1
  /\ \E i \in OpIds : ops[i].type = "healthcheck.wait" /\ ops[i].name = 1
  /\ NamesOf(ops, "container.run")[Len(NamesOf(ops, "container.run"))] = 1

\* the operations on which the executor fails
FailedOps == {i \in OpIds : ops[i] \in failing}
ErrorsOf(i) == {k \in 1..Len(errors) : errors[k].op = i}

\* C12: in sequential execution every emitted operation is attempted, in
\* emitted order, also after failures; every failed operation has exactly one
\* entry in errors and no other operation has one; the operations list is the
\* emitted list.
C12_SequentialAttemptsAll ==
  (Executing /\ ~opts.parallel) =>
    /\ \A i, j \in OpIds : (i < j /\ started[j] > 0) => finished[i] > 0
    /\ ops = EmitOps(plan, scenario, opts, existing)
    /\ pc = "done" =>
         /\ \A i \in OpIds : started[i] = 1 /\ finished[i] = 1
         /\ \A i \in OpIds : Cardinality(ErrorsOf(i)) = (IF i \in FailedOps THEN 1 ELSE 0)
         /\ Len(errors) = Cardinality(FailedOps)
         /\ \A k, l \in 1..Len(errors) : k < l => errors[k].op < errors[l].op

\* C12 witness: a sequential run ended with two failed operations, the first
\* of them followed by operations that did not fail.
C12_Witness ==
  /\ pc = "done" /\ ~opts.dry_run /\ ~opts.parallel
  /\ Len(errors) = 2
  /\ \E i \in FailedOps : \E j \in OpIds \ FailedOps : i < j

\* C13: in parallel execution a failed operation adds an error and keeps no
\* other operation from being executed: the run goes on to its end, where every
\* operation has been executed.
C13_ParallelFailureIsolated ==
  (Executing /\ opts.parallel) =>
    /\ pc # "raised"
    /\ pc # "done" => ENABLED Next
    /\ \A i \in FailedOps : finished[i] > 0 => ErrorsOf(i) # {}
    /\ pc = "done" => \A i \in OpIds : finished[i] > 0

\* C13 witness: a parallel run ended where the run of host 1 in the first wave
\* failed, a later wave and a network.connect followed.
C13_Witness ==
  /\ pc = "done" /\ ~opts.dry_run /\ opts.parallel
  /\ \E i \in FailedOps : ops[i].type = "container.run" /\ ops[i].name = 1
  /\ \E h \in HostIds : scenario.hosts[h].depends_on # {}
  /\ \E i \in OpIds : ops[i].type = "network.connect"

\* C14 as stated: a healthcheck.wait never reports failure before the timeout
\* has elapsed, whatever the probes returned.
C14_NoFailureBeforeTimeout ==
  (wait.pc = "returned" /\ ~wait.result) => wait.elapsed >= WaitTimeout

\* C14 amended: a healthcheck.wait reports failure before the timeout has
\* elapsed only when the running probe of that poll completed and did not report
\* true (output false, or a nonzero exit code); a starting or unhealthy status
\* with the container running, and every swallowed probe exception, keep it
\* polling, and it reports success only on status healthy, none or absent.
C14_FailureOnlyAtTimeoutOrNotRunning ==
  /\ (wait.pc = "returned" /\ ~wait.result) =>
       (wait.elapsed >= WaitTimeout \/ wait.running \in {"false", "nonzero"})
  /\ (wait.pc = "returned" /\ wait.result) => wait.health \in {"healthy", "none", "nostatus"}
  /\ (wait.pc = "loop" /\ wait.health # "") =>
       \/ wait.health \in {"starting", "unhealthy", "empty", "nonzero"} /\ wait.running \in {"true", "raise"}
       \/ wait.health \in {"null", "invalid", "raise"} /\ wait.running = ""

\* C14 witness: a wait that polled until the timeout had elapsed reports
\* failure, its last poll having seen an unhealthy, running container.
C14_Witness ==
  /\ wait.pc = "returned" /\ ~wait.result
  /\ wait.elapsed >= WaitTimeout
  /\ wait.health = "unhealthy" /\ wait.running = "true"

\* C15: when a poll's health probe yields no health record or status none and
\* its running probe reports true, the wait has returned success at that poll.
C15_NoHealthcheckSatisfied ==
  (wait.health \in {"null", "empty", "none"} /\ wait.running = "true") =>
    (wait.pc = "returned" /\ wait.result)

\* C16: while a wave is executed in parallel, no more than min(number of
\* hosts in the wave, 4) operations are executing at the same time.
C16_WaveConcurrency ==
  (Executing /\ opts.parallel /\ pc = "pool" /\ Acyclic(scenario)) =>
    Cardinality(Running) <= Min2(Cardinality({h \in HostIds : DepthOf(h) = depth}), 4)

\* the order of the fallback: attackers after the others, then db before web
\* before attacker, then the host id
FallbackKey(h) ==
  <<IF IsAttacker(h) THEN 1 ELSE 0,
    CASE scenario.hosts[h].type = "db" -> 0
      [] scenario.hosts[h].type = "web" -> 1
      [] scenario.hosts[h].type = "attacker" -> 2,
    h>>
FallbackLess(a, b) ==
  \/ a[1] < b[1]
  \/ a[1] = b[1] /\ a[2] < b[2]
  \/ a[1] = b[1] /\ a[2] = b[2] /\ a[3] < b[3]

\* C17: the plan holds the error "Cycle detected" exactly when the depends_on
\* graph has a cycle (a self-dependency included); then ordered_components still
\* holds every host, ordered by type priority, then host id, attackers last.
C17_CycleErrorAndFallback ==
  pc = "planned" =>
    /\ ("Cycle detected in host dependencies" \in Range(plan.errors)) <=> ~Acyclic(scenario)
    /\ ~Acyclic(scenario) =>
         /\ Len(plan.ordered_components) = MaxHosts
         /\ \A i, j \in 1..Len(plan.ordered_components) :
              i < j => FallbackLess(FallbackKey(plan.ordered_components[i]),
                                    FallbackKey(plan.ordered_components[j]))

\* C17 witness: a plan with the cycle error for a scenario where one host is
\* outside the cycle (Kahn's loop ordered it) and an attacker has a smaller id
\* than a db host.
C17_Witness ==
  /\ pc = "planned"
  /\ "Cycle detected in host dependencies" \in Range(plan.errors)
  /\ \E h \in HostIds : scenario.hosts[h].depends_on = {}
  /\ \E a, b \in HostIds : a < b /\ IsAttacker(a) /\ scenario.hosts[b].type = "db"

\* C18: ordered_components holds every host id exactly once and nothing else,
\* on the topological path, on the cycle fallback and without dependencies,
\* with or without planning errors.
C18_Permutation ==
  pc = "planned" =>
    /\ Len(plan.ordered_components) = Cardinality(HostIds)
    /\ \A h \in HostIds :
         Cardinality({i \in 1..Len(plan.ordered_components) : plan.ordered_components[i] = h}) = 1

\* C18 witness: a plan made on the topological path (dependencies, no cycle)
\* for a scenario with an attacker.
C18_Witness ==
  /\ pc = "planned"
  /\ plan.errors = <<>>
  /\ \E h \in HostIds : scenario.hosts[h].depends_on # {}
  /\ \E a \in HostIds : IsAttacker(a)

\* the network entries of the scenario: host and index in its networks list
EntryIds == {e \in HostIds \X (1..MaxEntries) : e[2] <= Len(scenario.hosts[e[1]].networks)}
EntryNet(e) == scenario.hosts[e[1]].networks[e[2]]
EntryIp(e) == scenario.hosts[e[1]].ips[e[2]]

\* C19: the plan holds an "IP conflict" error exactly when two network
\* entries claim the same non-empty ip_address on the same network (the same
\* address on two networks is no conflict); without such an error the addresses
\* recorded for a network in network_topology are pairwise distinct.
C19_IpConflict ==
  pc = "planned" =>
    /\ ("IP conflict" \in Range(plan.errors)) <=>
         \E a, b \in EntryIds :
           a # b /\ EntryNet(a) = EntryNet(b) /\ EntryIp(a) # 0 /\ EntryIp(a) = EntryIp(b)
    /\ "IP conflict" \notin Range(plan.errors) =>
         \A n \in NetIds : \A i, j \in 1..Len(plan.topology_hosts[n]) :
           (i # j /\ plan.topology_hosts[n][i].ip # 0) =>
             plan.topology_hosts[n][i].ip # plan.topology_hosts[n][j].ip
    /\ \A n \in NetIds :
         Len(plan.topology_hosts[n]) = Cardinality({e \in EntryIds : EntryNet(e) = n})

\* C19 witness: a plan with an IP conflict error for two hosts claiming one
\* address on one network.
C19_Witness ==
  /\ pc = "planned"
  /\ "IP conflict" \in Range(plan.errors)
  /\ \E a, b \in EntryIds :
       a[1] # b[1] /\ EntryNet(a) = EntryNet(b) /\ EntryIp(a) # 0 /\ EntryIp(a) = EntryIp(b)

\* the service ports claimed in the scenario: host, index in its services
\* list, index in the ports of that service
ClaimIds ==
  {c \in HostIds \X (1..MaxEntries) \X (1..MaxEntries) :
     /\ c[2] <= Len(scenario.hosts[c[1]].services)
     /\ c[3] <= Len(scenario.services[scenario.hosts[c[1]].services[c[2]]].ports)}
ClaimPort(c) == scenario.services[scenario.hosts[c[1]].services[c[2]]].ports[c[3]]
\* the protocol a port maps: tcp when none is given, lettercase ignored
EffectiveProtocol(p) == IF p.protocol \in {"", "tcp", "TCP"} THEN "tcp" ELSE "udp"

\* C20: the plan holds an "External port conflict" error exactly when some
\* (external port, protocol) pair is claimed more than once over the service
\* ports of all hosts; ports without external mapping, equal internal ports and
\* one external port under two protocols give no conflict.
C20_PortConflict ==
  pc = "planned" =>
    ("External port conflict" \in Range(plan.errors)) <=>
      \E a, b \in ClaimIds :
        /\ a # b
        /\ ClaimPort(a).external # 0
        /\ ClaimPort(a).external = ClaimPort(b).external
        /\ EffectiveProtocol(ClaimPort(a)) = EffectiveProtocol(ClaimPort(b))

\* C20 witness: a plan with an external port conflict between the services of
\* two hosts, one written with protocol TCP and one without protocol.
C20_Witness ==
  /\ pc = "planned"
  /\ "External port conflict" \in Range(plan.errors)
  /\ \E a, b \in ClaimIds :
       a[1] # b[1] /\ ClaimPort(a).protocol = "TCP" /\ ClaimPort(b).protocol = ""

\* C21: validate_and_plan has planned exactly when the validation holds no
\* error (whatever its warnings), is_valid says the same, and provision_cmd has
\* invoked provision only with a plan without errors.
C21_ErrorsEmptyGate ==
  /\ (cli.command = "validate_and_plan" /\ cli.pc = "returned") =>
       /\ (pc = "planned") <=> (validation.errors = <<>>)
       /\ (plan # NoPlan) <=> (validation.errors = <<>>)
       /\ validation.is_valid <=> (validation.errors = <<>>)
  /\ (cli.command = "validate_and_plan" /\ cli.pc # "returned") => plan = NoPlan
  /\ (cli.command = "provision_cmd" /\ cli.invoked) => (pc = "planned" /\ plan.errors = <<>>)

\* C21 witness: validate_and_plan returned a plan for a scenario whose
\* validation holds warnings and no error.
C21_Witness ==
  /\ cli.command = "validate_and_plan" /\ cli.pc = "returned"
  /\ validation.warnings # <<>> /\ validation.errors = <<>>
  /\ plan # NoPlan

\* C30: after a schema error the validation is invalid, holds the schema
\* error alone and no warning, whatever the reference, topology and flag checks
\* would report.
C30_SchemaErrorShortCircuits ==
  (validation.pc = "returned" /\ validation.schema # "ok") =>
    /\ ~validation.is_valid
    /\ Len(validation.errors) = 1
    /\ validation.errors[1] \in {"schema violation", "Invalid schema"}
    /\ validation.warnings = <<>>

\* C30 witness: a validation returned on a schema error for a scenario with
\* an undeclared network reference, a flag defect and no attacker.
C30_Witness ==
  /\ validation.pc = "returned" /\ validation.schema = "ValidationError"
  /\ UnknownNet \in Range(scenario.hosts[1].networks)
  /\ Len(scenario.flags) = 2
  /\ \A h \in HostIds : scenario.hosts[h].type # "attacker"

\* C22: the plan, and the operations and errors of a dry run on it, are the
\* same whatever the iteration order of the sets in the topological sort.
C22_Deterministic ==
  /\ pc # "start" => \A order \in Perms : plan = plan_scenario(scenario, order)
  /\ (cli.pc = "provision" /\ pc = "done") =>
       \A order \in Perms :
         /\ ops = EmitOps(plan_scenario(scenario, order), scenario, opts, existing)
         /\ errors = EmitErrors(plan_scenario(scenario, order), scenario)

\* C22 witness: a dry run done on a scenario whose topological order depends on
\* the iteration order.
C22_Witness ==
  /\ cli.pc = "provision" /\ pc = "done" /\ opts.dry_run
  /\ \E o1, o2 \in Perms :
       /\ topo_order(scenario, o1) # <<>>
       /\ topo_order(scenario, o2) # <<>>
       /\ topo_order(scenario, o1) # topo_order(scenario, o2)

\* C23: provision never raises.
C23_NeverRaises == pc # "raised"

\* C24: once provision has probed with inspects that raise, its errors hold an
\* execution error.
C24_ProbeFailureRecorded ==
  (pc # "planned" /\ opts.executor /\ existing.probe_raises) =>
    \E i \in 1..Len(errors) : errors[i].error = "Execution error"

\* the ids the loop over plan.ordered_components rejects
Rejected(hid) == hid \notin DOMAIN scenario.hosts \/ scenario.hosts[hid].networks = <<>>

\* C25: once the operations are emitted, every rejected id of the plan has one
\* error and no operation, and every other host of the plan has its run on its
\* primary network, its wait exactly when it has a healthcheck, and one connect
\* per further network.
C25_RejectedIdsIsolated ==
  pc # "planned" =>
    \A hid \in Range(plan.ordered_components) :
      IF Rejected(hid)
      THEN /\ Cardinality({i \in 1..Len(errors) : errors[i].name = hid}) = 1
           /\ \A j \in 1..Len(ops) : ops[j].name # hid
      ELSE /\ Cardinality({i \in 1..Len(errors) : errors[i].name = hid}) = 0
           /\ Cardinality({j \in 1..Len(ops) :
                             ops[j] = Op("container.run", hid, scenario.hosts[hid].networks[1])}) = 1
           /\ scenario.hosts[hid].healthcheck <=>
                (\E j \in 1..Len(ops) : ops[j] = Op("healthcheck.wait", hid, 0))
           /\ \A k \in 2..Len(scenario.hosts[hid].networks) :
                Cardinality({j \in 1..Len(ops) :
                               ops[j] = Op("network.connect", hid, scenario.hosts[hid].networks[k])}) = 1
           /\ Cardinality({j \in 1..Len(ops) : ops[j].name = hid}) =
                Len(scenario.hosts[hid].networks) + (IF scenario.hosts[hid].healthcheck THEN 1 ELSE 0)

\* C25 witness: provision returned for a plan with an unknown id, a host
\* without network and a host with a healthcheck and two networks.
C25_Witness ==
  /\ pc = "done"
  /\ UnknownHost \in Range(plan.ordered_components)
  /\ 2 \in Range(plan.ordered_components) /\ scenario.hosts[2].networks = <<>>
  /\ 1 \in Range(plan.ordered_components) /\ Len(scenario.hosts[1].networks) = 2
  /\ scenario.hosts[1].healthcheck
  /\ Len(errors) = 2

\* the done futures of operation i that the calling thread has not collected
Uncollected(i) == {k \in 1..Len(pool.done) : pool.done[k] = i}

\* C26: only the thread that called provision ever appends to errors, so no two
\* threads write it at once, and no error is lost: every completed execution of
\* a failing operation is either still to be collected or has its entry.
C26_SingleWriterNoLoss ==
  /\ pool.appending \subseteq {MainThread}
  /\ Cardinality(pool.appending) <= 1
  /\ \A i \in FailedOps :
       ops[i].type \notin {"network.create.skip", "container.run.skip"} =>
         Cardinality(ErrorsOf(i)) + Cardinality(Uncollected(i)) = finished[i]
  /\ pc = "done" => pool.done = <<>>

\* C26 witness: two workers have completed failing operations while the calling
\* thread is appending the first error.
C26_Witness ==
  /\ pc = "pool"
  /\ pool.appending = {MainThread}
  /\ Len(pool.done) >= 2
  /\ \A k \in 1..Len(pool.done) : pool.done[k] \in FailedOps

\* the tier a difficulty names, whatever its case ("": none)
NamedTier(df) ==
  CASE df \in {"easy", "EASY", "Easy"} -> "easy"
    [] df \in {"medium", "MEDIUM", "Medium"} -> "medium"
    [] df \in {"hard", "HARD", "Hard"} -> "hard"
    [] OTHER -> ""

RegisteredName ==
  /\ "resource_policy" \in DOMAIN policy.metadata
  /\ policy.metadata.resource_policy \in DOMAIN policy.engine.custom_policies

DifficultyNamesTier ==
  /\ "difficulty" \in DOMAIN policy.metadata
  /\ NamedTier(policy.metadata.difficulty) # ""

\* C28: get_policy never raises and returns the registered policy that
\* metadata.resource_policy names; else the policy of the tier that
\* metadata.difficulty names in any case; else the policy of the default tier.
C28_PolicyPriority ==
  /\ policy.pc # "raised"
  /\ policy.pc \in {"got", "applied"} =>
       /\ RegisteredName =>
            policy.chosen = policy.engine.custom_policies[policy.metadata.resource_policy]
       /\ (~RegisteredName /\ DifficultyNamesTier) =>
            /\ policy.chosen.tier = NamedTier(policy.metadata.difficulty)
            /\ policy.chosen.limits = DEFAULT_POLICIES(NamedTier(policy.metadata.difficulty))
       /\ (~RegisteredName /\ ~DifficultyNamesTier) =>
            /\ policy.chosen.tier = policy.engine.default_tier
            /\ policy.chosen.limits = DEFAULT_POLICIES(policy.engine.default_tier)

\* C28 witness: a registered policy was chosen although the difficulty names a
\* tier.
C28_Witness ==
  /\ policy.pc = "got"
  /\ RegisteredName /\ DifficultyNamesTier
  /\ policy.metadata.difficulty = "EASY"
  /\ policy.chosen.name = "minimal"

\* the limits the host config declares
DeclaresLimit ==
  \E key \in {"cpu_limit", "memory_limit", "disk_limit", "pids_limit"} : key \in DOMAIN policy.passed

\* the policy's limits are in the result, over whatever the host declared
Injected ==
  /\ DOMAIN policy.result = DOMAIN policy.passed \cup DOMAIN policy.chosen.limits
  /\ \A k \in DOMAIN policy.chosen.limits : policy.result[k] = policy.chosen.limits[k]
  /\ \A k \in DOMAIN policy.passed \ DOMAIN policy.chosen.limits : policy.result[k] = policy.passed[k]

C27_PolicyLimitsOnRun ==
  ("policy_engine" \in cli.kwargs /\ cli.invoked) =>
    /\ cli.pc # "raised"
    /\ pc = "done" =>
         \A j \in 1..Len(ops) :
           ops[j].type = "container.run" =>
             _container_run_limits(scenario.hosts[ops[j].name].resources) =
               _container_run_limits(
                 apply_policy(scenario.hosts[ops[j].name].resources,
                              get_policy(PolicyEngine("medium", {}), scenario.metadata)))

\* the number of entries of validation.errors with a message
CountErr(msg) == Cardinality({i \in 1..Len(validation.errors) : validation.errors[i] = msg})

\* the references of the scenario that name nothing declared
UndeclaredNetRefs ==
  {<<h, i>> \in HostIds \X (1..MaxNets) :
     i <= Len(scenario.hosts[h].networks)
     /\ \A k \in 1..Len(scenario.networks) : scenario.networks[k] # scenario.hosts[h].networks[i]}
UndeclaredFlagRefs ==
  {<<h, i>> \in HostIds \X (1..MaxNets) :
     i <= Len(scenario.hosts[h].flags)
     /\ \A k \in 1..Len(scenario.flags) : scenario.flags[k].id # scenario.hosts[h].flags[i]}
UnknownPlacements ==
  {k \in 1..Len(scenario.flags) : scenario.flags[k].host_id \notin HostIds}

\* C31: for a scenario that passed the schema, validate reports one error for
\* every host network reference to an undeclared network, for every host flag
\* reference to an undeclared flag and for every flag placed on an id that is no
\* host, and is_valid is true exactly when errors is empty, whatever the
\* warnings.
C31_ReferenceErrors ==
  (validation.pc = "returned" /\ validation.schema = "ok") =>
    /\ CountErr("references unknown network") = Cardinality(UndeclaredNetRefs)
    /\ CountErr("references unknown flag") = Cardinality(UndeclaredFlagRefs)
    /\ CountErr("Flag references unknown host") = Cardinality(UnknownPlacements)
    /\ (UndeclaredNetRefs \cup UndeclaredFlagRefs # {} \/ UnknownPlacements # {}) => ~validation.is_valid
    /\ validation.is_valid <=> (Len(validation.errors) = 0)

\* C31 witness: a validation of a scenario with an undeclared network reference,
\* an undeclared flag reference and a flag placed on an unknown host.
C31_Witness ==
  /\ validation.pc = "returned" /\ validation.schema = "ok"
  /\ UndeclaredNetRefs # {} /\ UndeclaredFlagRefs # {} /\ UnknownPlacements # {}
  /\ Len(validation.errors) = 3
  /\ validation.warnings # <<>>

\* the flags that repeat the value, or the id, of an earlier flag
RepeatedValues ==
  {k \in 1..Len(scenario.flags) : \E j \in 1..(k - 1) : scenario.flags[j].value = scenario.flags[k].value}
RepeatedIds ==
  {k \in 1..Len(scenario.flags) : \E j \in 1..(k - 1) : scenario.flags[j].id = scenario.flags[k].id}

\* C32: for a scenario that passed the schema, validate reports a duplicate
\* error exactly when two flags share an id or a value: one error for each flag
\* that repeats the value of an earlier flag and one for each flag that repeats
\* the id of an earlier flag.
C32_DuplicateFlags ==
  (validation.pc = "returned" /\ validation.schema = "ok") =>
    /\ CountErr("Duplicate flag value") = Cardinality(RepeatedValues)
    /\ CountErr("Duplicate flag ID") = Cardinality(RepeatedIds)
    /\ (CountErr("Duplicate flag value") + CountErr("Duplicate flag ID") > 0) <=>
         (\E j, k \in 1..Len(scenario.flags) :
            j # k /\ (scenario.flags[j].id = scenario.flags[k].id
                       \/ scenario.flags[j].value = scenario.flags[k].value))

\* C32 witness: a validation of three flags with one value and distinct ids,
\* with two duplicate errors.
C32_Witness ==
  /\ validation.pc = "returned" /\ validation.schema = "ok"
  /\ Len(scenario.flags) = 3
  /\ CountErr("Duplicate flag value") = 2
  /\ CountErr("Duplicate flag ID") = 0

\* the stage a command invoked reported an error
StageErrors ==
  CASE cli.command = "validate_cmd" -> validation.errors # <<>>
    [] cli.command = "plan_cmd" -> plan.errors # <<>>
    [] OTHER -> plan.errors # <<>> \/ errors # <<>>

\* C33: a command that has ended, its docker preflight apart, ended with a
\* nonzero status exactly when the stage it invoked reported an error.
C33_ExitNonzeroIffErrors ==
  (cli.exit # "running" /\ ~(cli.execute /\ cli.docker # "ok")) =>
    ((cli.exit = "1") <=> StageErrors)

\* C34: a healthcheck.wait that has been called returns, whatever the probes
\* answer or raise, and the run it is part of ends.
C34_WaitTerminates ==
  /\ (wait.pc = "loop") ~> (wait.pc = "returned")
  /\ (pc = "sequential") ~> (pc = "done")

\* C34 witness: a wait returned failure once the timeout had elapsed, its last
\* health probe having raised.
C34_Witness ==
  /\ wait.pc = "returned" /\ ~wait.result
  /\ wait.elapsed >= WaitTimeout
  /\ wait.health = "raise"

\* C35: the operations provision emits, and returns when the call returns, are
\* those the same call emits with the parallel flag flipped, in the same order,
\* and the execution leaves the list as emitted.
C35_OpsIndependentOfParallel ==
  pc \notin {"start", "planned"} =>
    ops = EmitOps(plan, scenario, [opts EXCEPT !.parallel = ~@], existing)

\* C35 witness: a parallel call returned a list in which a network.connect of
\* one host comes before the container.run of another.
C35_Witness ==
  /\ pc = "done" /\ opts.parallel
  /\ \E i, j \in 1..Len(ops) :
       i < j /\ ops[i].type = "network.connect" /\ ops[j].type = "container.run"

\* C36: in execute mode no operation is handed to the executor more than once,
\* and when the call is over every operation that is not a *.skip has been
\* executed exactly once.
C36_ExecutedExactlyOnce ==
  Executing =>
    /\ \A i \in OpIds : started[i] <= 1
    /\ pc \in {"done", "raised"} =>
         \A i \in OpIds :
           ops[i].type \notin {"network.create.skip", "container.run.skip"} =>
             started[i] = 1 /\ finished[i] = 1

\* C37: in parallel execution under replace mode the container.run of a
\* container that existed has started only if its container.remove has returned.
C37_RemoveBeforeRun ==
  (Executing /\ opts.parallel /\ opts.idempotent_mode = "replace") =>
    \A i, j \in OpIds :
      (/\ ops[i].type = "container.remove" /\ ops[j].type = "container.run"
       /\ ops[i].name = ops[j].name /\ started[j] > 0) => finished[i] > 0

\* the scenario with every depends_on list emptied
WithoutDependsOn(sc) ==
  [sc EXCEPT !.hosts = [h \in HostIds |-> [sc.hosts[h] EXCEPT !.depends_on = {}]]]

C39_DryRunFrame ==
  opts.dry_run =>
    /\ pc \in {"start", "planned", "done"}
    /\ \A i \in OpIds : started[i] = 0 /\ finished[i] = 0
    /\ ~opts.executor =>
         \A i \in OpIds :
           ops[i].type \notin {"network.create.skip", "container.run.skip",
                               "network.remove", "container.remove"}

\* C39 witness: a dry run with an executor returned a list with a
\* container.remove in it.
C39_Witness ==
  /\ pc = "done" /\ opts.dry_run /\ opts.executor
  /\ \E i \in OpIds : ops[i].type = "container.remove"

\* C40: a parallel execution comes to its end for every depends_on graph, a
\* cyclic one included: the depth computation returns, and once the waves are
\* over every container operation of every host of the plan has been executed
\* in exactly one wave.
C40_ParallelTerminates ==
  (Executing /\ opts.parallel) =>
    /\ (pc = "raised" => ~DepthDiverges(scenario, plan))
    /\ pc \in {"connects", "done"} =>
         \A i \in OpIds :
           (StartsWithContainer(ops[i].type) \/ ops[i].type = "healthcheck.wait") =>
             started[i] = 1 /\ finished[i] = 1

====
